---- MODULE Spec2Model ----
(***************************************************************************)
(* Registry Central of the automata agent registry: agents, agent_stats,   *)
(* agent_feedbacks, fraud_detection_log and callers tables, the feedback   *)
(* pipeline (FeedbackService / FraudDetectionService / StatsRepository),   *)
(* registration, search and the quarantine auto-review loop.               *)
(*                                                                         *)
(* Units.  avg_rating is NUMERIC(3,2): it is held in hundredths (0..100).  *)
(* avg_latency_ms is NUMERIC(10,2): it is held in hundredths of a ms.      *)
(* A rating of a request is given in hundredths, a latency in whole ms.    *)
(* The self-rating weight is held in tenths, the decreasing weight in      *)
(* ten-thousandths and their product, the total weight, in                 *)
(* hundred-thousandths.  Time is counted in minutes.                       *)
(***************************************************************************)
EXTENDS Integers, Sequences, FiniteSets, TLC

(* ------------------------------------------------------------------ *)
(* Bounds of the model                                                  *)
(* ------------------------------------------------------------------ *)
MaxSubmits == 1
MaxTicks == 1
MaxRequests == 3
MaxRatings == 3
MaxSpam == 8

(* ------------------------------------------------------------------ *)
(* Program constants                                                    *)
(* ------------------------------------------------------------------ *)
RateLimitPerMinute == 60
SpamPerHour == 10
PatternMinTotal == 10
PatternExtremePct == 80
SelfWeight == 1
NoSelfWeight == 10
FullWeight == 10000
MinWeight == 1000
WeightOne == 100000

T1SuccessCalls == 20
T1SuccessPct == 40
T1RatingCalls == 15
T1Rating == 30
T1LatencyCalls == 10
T1LatencyMs == 30000
T1FraudPct == 50

T2SuccessCalls == 40
T2SuccessPct == 20
T2RatingCalls == 30
T2Rating == 15
T2FraudPct == 70
T2SelfPct == 80

ReactSuccessPct == 45
ReactRating == 35
ReactFraudPct == 40

(* ------------------------------------------------------------------ *)
(* Value domains                                                        *)
(* ------------------------------------------------------------------ *)
AgentIds == {"a1", "a2"}
\* SQL NULL / JavaScript null, one per type of value
NoRow == [none |-> TRUE]
NoText == "NULL"
NoCaller == <<"none", "none">>
NoTime == 0 - 999999

ProviderIdentifiers == {"acme|10.0.0.1", "10.0.0.2"}
ConsumerIdentifiers == {"10.0.0.7", "10.0.0.8"}

\* generateCallerId: `${type}-${sha256(type:identifier)[0..16]}`; the hash is
\* kept symbolic (the pair), so two ids are equal exactly when type and
\* identifier are.
generateCallerId(type, identifier) == <<type, identifier>>

ProviderIds == {generateCallerId("provider", i) : i \in ProviderIdentifiers}
ConsumerIds == {generateCallerId("consumer", i) : i \in ConsumerIdentifiers}

VARIABLES
  production,   \* process.env.NODE_ENV === 'production'
  now,          \* wall clock, minutes
  ticks,        \* number of clock advances so far
  agents,       \* table agents: id -> row
  stats,        \* table agent_stats: agent_id -> row
  feedbacks,    \* table agent_feedbacks: row -> number of such rows
  fraudLog,     \* table fraud_detection_log: row -> number of such rows
  callers,      \* table callers: its rows, in the order of insertion
  handlers,     \* in-flight POST /feedback requests
  submits,      \* number of feedback requests accepted by the router so far
  reviewResult, \* what the last finished auto-review run returned
  searchResult, \* what the last search returned
  ipRateLimits, \* provider of each agent: when its /execute last let a call in
  executeReply, \* what the last /execute of a provider did and replied
  refusal,      \* the last request a preHandler of the registry refused
  tokenHandlers, \* in-flight POST /auth/token requests
  issuedTokens, \* the session tokens signed so far
  registerReply, \* what POST /register last answered to an authorized provider
  registering   \* the agent id of a POST /register between its two writes

\* the state outside the registry's tables and replies
outside == <<ipRateLimits, executeReply, refusal, tokenHandlers, issuedTokens,
            registerReply, registering>>

vars == <<production, now, ticks, agents, stats, feedbacks, fraudLog, callers,
          handlers, submits, reviewResult, searchResult, outside>>

(* ------------------------------------------------------------------ *)
(* Arithmetic helpers                                                   *)
(* ------------------------------------------------------------------ *)
Min(a, b) == IF a < b THEN a ELSE b
Max(a, b) == IF a > b THEN a ELSE b

\* Math.round(n / d) for n >= 0, d > 0 (rounds half up)
RoundDiv(n, d) == (2 * n + d) \div (2 * d)

\* number of rows of a table (row -> count) that satisfy P
RECURSIVE SumOver(_, _)
SumOver(f, S) ==
  IF S = {} THEN 0
  ELSE LET x == CHOOSE y \in S : TRUE IN f[x] + SumOver(f, S \ {x})

CountRows(table, P(_)) == SumOver(table, {r \in DOMAIN table : P(r)})

InsertRow(table, row) ==
  IF row \in DOMAIN table
  THEN [table EXCEPT ![row] = @ + 1]
  ELSE [r \in DOMAIN table \cup {row} |-> IF r = row THEN 1 ELSE table[r]]

(* ------------------------------------------------------------------ *)
(* Text: a string is the sequence of its characters                     *)
(* ------------------------------------------------------------------ *)
LowerLetters ==
  <<"a", "b", "c", "d", "e", "f", "g", "h", "i", "j", "k", "l", "m", "n",
   "o", "p", "q", "r", "s", "t", "u", "v", "w", "x", "y", "z">>
UpperLetters ==
  <<"A", "B", "C", "D", "E", "F", "G", "H", "I", "J", "K", "L", "M", "N",
   "O", "P", "Q", "R", "S", "T", "U", "V", "W", "X", "Y", "Z">>
Digits ==
  {"0", "1", "2", "3", "4", "5", "6", "7", "8", "9"}

Range(f) == {f[i] : i \in DOMAIN f}

\* String.prototype.toLowerCase
Lower(c) ==
  IF \E i \in 1..26 : UpperLetters[i] = c
  THEN LowerLetters[CHOOSE i \in 1..26 : UpperLetters[i] = c]
  ELSE c
toLowerCase(t) == [i \in 1..Len(t) |-> Lower(t[i])]

\* [a-zA-Z0-9]
IsAlnum(c) == c \in Range(LowerLetters) \cup Range(UpperLetters) \cup Digits
NonAlnum(t) == {c \in Range(t) : ~IsAlnum(c)}

\* String.prototype.split on one separator character out of `seps`: the
\* pieces between the separators, empty ones included
split(t, seps) ==
  LET cuts == {0, Len(t) + 1} \cup {i \in 1..Len(t) : t[i] \in seps}
      pos(k) == CHOOSE i \in cuts : Cardinality({j \in cuts : j < i}) = k - 1
  IN [k \in 1..(Cardinality(cuts) - 1) |-> SubSeq(t, pos(k) + 1, pos(k + 1) - 1)]

\* String.prototype.trim
RECURSIVE trim(_)
trim(t) ==
  IF t = <<>> THEN t
  ELSE IF Head(t) = " " THEN trim(Tail(t))
  ELSE IF t[Len(t)] = " " THEN trim(SubSeq(t, 1, Len(t) - 1))
  ELSE t

\* String.prototype.includes
includes(t, part) ==
  \E i \in 0..(Len(t) - Len(part)) : SubSeq(t, i + 1, i + Len(part)) = part

TWeatherForecast ==
  <<"w", "e", "a", "t", "h", "e", "r", ".", "f", "o", "r", "e", "c", "a",
   "s", "t">>
TWeatherForcast ==
  <<"w", "e", "a", "t", "h", "e", "r", ".", "f", "o", "r", "c", "a", "s",
   "t">>
TWeatherAlerts ==
  <<"w", "e", "a", "t", "h", "e", "r", ".", "a", "l", "e", "r", "t", "s">>
TWeather ==
  <<"w", "e", "a", "t", "h", "e", "r">>
TFinance ==
  <<"f", "i", "n", "a", "n", "c", "e">>
TForecast ==
  <<"f", "o", "r", "e", "c", "a", "s", "t">>
TStorm ==
  <<"s", "t", "o", "r", "m">>
TGlobal ==
  <<"G", "l", "o", "b", "a", "l">>
TSaoPauloBrazil ==
  <<"S", "a", "o", " ", "P", "a", "u", "l", "o", ",", " ", "S", "P", ",",
   " ", "B", "r", "a", "z", "i", "l">>
TSaoPaulo ==
  <<"s", "a", "o", " ", "p", "a", "u", "l", "o">>
TWeatherService ==
  <<"w", "e", "a", "t", "h", "e", "r", " ", "f", "o", "r", "e", "c", "a",
   "s", "t", " ", "s", "e", "r", "v", "i", "c", "e">>
TStormAlerts ==
  <<"s", "t", "o", "r", "m", " ", "a", "l", "e", "r", "t", "s", " ", "f",
   "o", "r", " ", "B", "r", "a", "z", "i", "l">>

(* ------------------------------------------------------------------ *)
(* The registrations and the search requests of the model               *)
(* ------------------------------------------------------------------ *)
\* endpoints
Https == <<"h", "t", "t", "p", "s", ":", "/", "/">>
Http == <<"h", "t", "t", "p", ":", "/", "/">>
WxHost == <<"w", "x", ".", "e", "x", "a", "m", "p", "l", "e", ".", "c", "o", "m">>
StormHost == <<"s", "t", "o", "r", "m", ".", "e", "x", "a", "m", "p", "l", "e", ".", "c", "o", "m">>
Localhost == <<"l", "o", "c", "a", "l", "h", "o", "s", "t">>
Loopback == <<"1", "2", "7", ".", "0", ".", "0", ".", "1">>

PWeather ==
  [name |-> "Weather Now", endpoint |-> Https \o WxHost,
   description |-> TWeatherService,
   intents |-> <<TWeatherForecast>>, tags |-> <<TForecast>>,
   categories |-> <<TWeather>>, location_scope |-> TGlobal,
   languages |-> <<"en-US">>]

PStorm ==
  [name |-> "Storm Watch", endpoint |-> Https \o StormHost,
   description |-> TStormAlerts,
   intents |-> <<TWeatherForecast, TWeatherAlerts>>, tags |-> <<TStorm>>,
   categories |-> <<TWeather>>, location_scope |-> TSaoPauloBrazil,
   languages |-> <<"en-US">>]

\* a request's intent: absent, one string, or an array of strings
NoIntent == [array |-> FALSE, items |-> <<>>]
OneIntent(t) == [array |-> FALSE, items |-> <<t>>]
\* `if (intent)`: an array is truthy even when empty, a string when non-empty
intentGiven(intent) ==
  intent.array \/ (intent.items # <<>> /\ intent.items[1] # <<>>)

SearchRequest(intent, categories) ==
  [intent |-> intent, categories |-> categories, language |-> "en-US",
   location |-> <<>>, description |-> <<>>, tags |-> <<>>, limit |-> 0]

\* one request for each stage that can produce the candidates
ReqFiltered == SearchRequest(OneIntent(TWeatherForecast), <<TWeather>>)
ReqIntent == SearchRequest(OneIntent(TWeatherForecast), <<TFinance>>)
ReqFuzzy == SearchRequest(OneIntent(TWeatherForcast), <<TWeather>>)
ReqAll == SearchRequest(NoIntent, <<TFinance>>)
SearchRequests == {ReqFiltered, ReqIntent, ReqFuzzy, ReqAll}

TBrazil ==
  <<"B", "r", "a", "z", "i", "l">>
TLisbon ==
  <<"L", "i", "s", "b", "o", "n">>
TNull ==
  <<"n", "u", "l", "l">>

\* `request` asked for a location
Located(request, location) == [request EXCEPT !.location = location]

\* requests for agents near a place: the agent's city, its country, a place
\* in another country, and the text "null" sent in place of a location
LocatedRequests ==
  {Located(ReqFiltered, l) : l \in {TSaoPaulo, TBrazil, TLisbon, TNull}}

\* the requests whose ranking is examined
RankRequests == {ReqFiltered, ReqIntent} \cup LocatedRequests

\* `request` with a limit; 0 stands for a request without one
Limited(request, limit) == [request EXCEPT !.limit = limit]

\* the limits a request may carry: none, below the cap, the cap, above the
\* cap, and negative
Limits == {0, 1, 3, 10, 11, 50, 0 - 1, 0 - 3}
LimitRequests == {Limited(ReqFiltered, l) : l \in Limits}

(* ------------------------------------------------------------------ *)
(* Repositories (queries over the tables)                               *)
(* ------------------------------------------------------------------ *)
\* AgentRepository.findById / StatsRepository.findByAgentId
findAgentById(ag, id) == IF id \in DOMAIN ag THEN ag[id] ELSE NoRow
findStatsByAgentId(st, id) == IF id \in DOMAIN st THEN st[id] ELSE NoRow

\* created_at > NOW() - INTERVAL '1 minutes'
countRecentByConsumer(fb, consumerId, t) ==
  LET P(r) == r.consumer_id = consumerId /\ r.created_at > t - 1
  IN CountRows(fb, P)

\* created_at > NOW() - INTERVAL '1 hours'
countRecentByConsumerAndAgent(fb, consumerId, agentId, t) ==
  LET P(r) == r.consumer_id = consumerId /\ r.agent_id = agentId
              /\ r.created_at > t - 60
  IN CountRows(fb, P)

countByConsumerAndAgent(fb, consumerId, agentId) ==
  LET P(r) == r.consumer_id = consumerId /\ r.agent_id = agentId
  IN CountRows(fb, P)

countFeedbacksOfAgent(fb, agentId) ==
  LET P(r) == r.agent_id = agentId IN CountRows(fb, P)

getTotalFraudCount(fl, agentId) ==
  LET P(r) == r.agent_id = agentId IN CountRows(fl, P)

\* a percentage kept exact, as the fraction n / d
Pct(part, total) ==
  IF total = 0 THEN [n |-> 0, d |-> 1] ELSE [n |-> 100 * part, d |-> total]
PctGt(p, k) == p.n > k * p.d
PctLt(p, k) == p.n < k * p.d
\* Math.round(p * 10) / 10, in tenths of a percent
PctTenths(p) == RoundDiv(10 * p.n, p.d)

\* FeedbackRepository.getFraudStats
getFraudStats(ag, fb, agentId) ==
  LET agentCallerId == IF agentId \in DOMAIN ag THEN ag[agentId].caller_id ELSE NoCaller
      total == countFeedbacksOfAgent(fb, agentId)
      selfRatingCount ==
        IF agentCallerId # NoCaller
        THEN countByConsumerAndAgent(fb, agentCallerId, agentId) ELSE 0
  IN [total |-> total,
      selfRatingCount |-> selfRatingCount,
      selfRatingPercentage |-> Pct(selfRatingCount, total)]

\* FeedbackRepository.getRatingPatternStats
getRatingPatternStats(fb, agentId) ==
  LET total == countFeedbacksOfAgent(fb, agentId)
      E(r) == r.agent_id = agentId /\ (r.rating = 0 \/ r.rating = 100)
      extremeRatings == CountRows(fb, E)
  IN [total |-> total,
      extremeRatings |-> extremeRatings,
      extremePercentage |-> Pct(extremeRatings, total)]

(* ------------------------------------------------------------------ *)
(* FraudDetectionService                                                *)
(* ------------------------------------------------------------------ *)
\* a fraud percentage that would be computed in development too
calculateFraudPercentageAnyMode(prod, fb, fl, agentId) ==
  LET total == countFeedbacksOfAgent(fb, agentId)
      frauds == getTotalFraudCount(fl, agentId)
  IN IF total = 0 THEN Pct(0, 0)
     ELSE IF frauds >= total THEN Pct(total, total)
     ELSE Pct(frauds, total)

\* calculateFraudPercentage: Math.min(100, fraud rows / feedbacks * 100)
calculateFraudPercentage(prod, fb, fl, agentId) ==
  LET total == countFeedbacksOfAgent(fb, agentId)
      frauds == getTotalFraudCount(fl, agentId)
  IN IF ~prod THEN Pct(0, 0)
     ELSE IF total = 0 THEN Pct(0, 0)
     ELSE IF frauds >= total THEN Pct(total, total)
     ELSE Pct(frauds, total)

\* 1.0 / (1 + Math.log(1 + count)), in ten-thousandths; exact to that digit
\* for count <= 20, the value at the next lower knot above that
WeightTable(count) ==
  CASE count = 0 -> 10000 [] count = 1 -> 5906 [] count = 2 -> 4765
    [] count = 3 -> 4191 [] count = 4 -> 3832 [] count = 5 -> 3582
    [] count = 6 -> 3395 [] count = 7 -> 3247 [] count = 8 -> 3128
    [] count = 9 -> 3028 [] count = 10 -> 2943 [] count = 11 -> 2870
    [] count = 12 -> 2805 [] count = 13 -> 2748 [] count = 14 -> 2697
    [] count = 15 -> 2651 [] count = 16 -> 2609 [] count = 17 -> 2570
    [] count = 18 -> 2535 [] count = 19 -> 2503
    [] count >= 20 /\ count < 50 -> 2472
    [] count >= 50 /\ count < 100 -> 2028
    [] count >= 100 /\ count < 200 -> 1781
    [] count >= 200 /\ count < 500 -> 1586
    [] count >= 500 /\ count < 1000 -> 1386
    [] count >= 1000 /\ count < 2000 -> 1264
    [] count >= 2000 /\ count < 5000 -> 1163
    [] count >= 5000 /\ count < 8103 -> 1051
    [] OTHER -> 1000

calculateFeedbackWeight(prod, fb, consumerId, agentId) ==
  LET count == countByConsumerAndAgent(fb, consumerId, agentId)
  IN IF ~prod THEN FullWeight
     ELSE IF count = 0 THEN FullWeight
     ELSE Max(MinWeight, WeightTable(count))

FraudRow(agentId, consumerId, type, severity) ==
  [agent_id |-> agentId, consumer_id |-> consumerId,
   fraud_type |-> type, severity |-> severity]

\* a detection that would log the self-rating and leave its weight at 1.0
detectSelfRatingUndamped(prod, ag, consumerId, agentId) ==
  [isFraud |-> prod /\ agentId \in DOMAIN ag /\ consumerId = ag[agentId].caller_id,
   weight |-> NoSelfWeight]

\* detectSelfRating: the weight and whether a SELF_RATING row is logged
detectSelfRating(prod, ag, consumerId, agentId) ==
  LET agent == findAgentById(ag, agentId)
  IN IF ~prod THEN [isFraud |-> FALSE, weight |-> NoSelfWeight]
     ELSE IF agent = NoRow \/ agent.caller_id = NoCaller
          THEN [isFraud |-> FALSE, weight |-> NoSelfWeight]
     ELSE IF consumerId = agent.caller_id
          THEN [isFraud |-> TRUE, weight |-> SelfWeight]
     ELSE [isFraud |-> FALSE, weight |-> NoSelfWeight]

\* detectSpam
detectSpam(prod, fb, consumerId, agentId, t) ==
  prod /\ countRecentByConsumerAndAgent(fb, consumerId, agentId, t) > SpamPerHour

\* detectRatingPatterns
detectRatingPatterns(prod, fb, agentId) ==
  LET s == getRatingPatternStats(fb, agentId)
  IN prod /\ s.total >= PatternMinTotal
          /\ PctGt(s.extremePercentage, PatternExtremePct)

\* a fraud analysis that would run after the Feedback row was inserted: its
\* counts include the feedback being submitted
analyzeFeedbackCountingOwn(prod, ag, fb, fl, consumerId, agentId, t) ==
  LET own == [agent_id |-> agentId, consumer_id |-> consumerId,
              success |-> TRUE, latency_ms |-> 0, rating |-> 50, created_at |-> t]
      fbOwn == InsertRow(fb, own)
      selfRating == detectSelfRating(prod, ag, consumerId, agentId)
      spam == detectSpam(prod, fbOwn, consumerId, agentId, t)
  IN IF ~prod
     THEN [totalWeight |-> WeightOne, fraudDetected |-> FALSE,
           shouldBlock |-> FALSE, log |-> fl]
     ELSE IF spam
     THEN [totalWeight |-> 0, fraudDetected |-> TRUE, shouldBlock |-> TRUE,
           log |-> InsertRow(fl, FraudRow(agentId, consumerId, "SPAM", "HIGH"))]
     ELSE [totalWeight |-> selfRating.weight
                           * calculateFeedbackWeight(prod, fbOwn, consumerId, agentId),
           fraudDetected |-> selfRating.isFraud,
           shouldBlock |-> FALSE, log |-> fl]

\* analyzeFeedback: the result and the fraud log after it
analyzeFeedback(prod, ag, fb, fl, consumerId, agentId, t) ==
  LET selfRating == detectSelfRating(prod, ag, consumerId, agentId)
      fl1 == IF selfRating.isFraud
             THEN InsertRow(fl, FraudRow(agentId, consumerId, "SELF_RATING", "HIGH"))
             ELSE fl
      spam == detectSpam(prod, fb, consumerId, agentId, t)
      fl2 == IF spam
             THEN InsertRow(fl1, FraudRow(agentId, consumerId, "SPAM", "HIGH"))
             ELSE fl1
      decreasingWeight == calculateFeedbackWeight(prod, fb, consumerId, agentId)
      fl3 == IF detectRatingPatterns(prod, fb, agentId)
             THEN InsertRow(fl2, FraudRow(agentId, NoCaller, "RATING_PATTERN", "MEDIUM"))
             ELSE fl2
  IN IF ~prod
     THEN [totalWeight |-> WeightOne, fraudDetected |-> FALSE,
           shouldBlock |-> FALSE, log |-> fl]
     ELSE IF spam
     THEN [totalWeight |-> 0, fraudDetected |-> TRUE,
           shouldBlock |-> TRUE, log |-> fl2]
     ELSE [totalWeight |-> selfRating.weight * decreasingWeight,
           fraudDetected |-> selfRating.isFraud,
           shouldBlock |-> FALSE, log |-> fl3]

(* ------------------------------------------------------------------ *)
(* StatsRepository                                                      *)
(* ------------------------------------------------------------------ *)
StatsRow(total, success, latency, rating) ==
  [calls_total |-> total, calls_success |-> success,
   avg_latency_ms |-> latency, avg_rating |-> rating]

\* incrementFeedbackWeighted, the row written when none was read
newStats(success, latencyMs, rating, weight) ==
  StatsRow(1, IF success THEN 1 ELSE 0, latencyMs * 100,
           RoundDiv(rating * weight, WeightOne))

\* an update that would store the new calls_success beside the calls_total
\* it read
updatedStatsStaleTotal(existing, success, latencyMs, rating, weight) ==
  StatsRow(existing.calls_total,
           existing.calls_success + (IF success THEN 1 ELSE 0),
           existing.avg_latency_ms, existing.avg_rating)

\* an update that would add the weighted rating to the mean undivided
updatedStatsUnaveraged(existing, success, latencyMs, rating, weight) ==
  StatsRow(existing.calls_total + 1,
           existing.calls_success + (IF success THEN 1 ELSE 0),
           existing.avg_latency_ms,
           existing.avg_rating + RoundDiv(rating * weight, WeightOne))

\* incrementFeedbackWeighted, the row written from the row `existing` read
\* before; the running means are rounded to the columns' two decimals
updatedStats(existing, success, latencyMs, rating, weight) ==
  LET newCallsTotal == existing.calls_total + 1
      newCallsSuccess == existing.calls_success + (IF success THEN 1 ELSE 0)
      currentLatency == existing.avg_latency_ms
      currentRating == existing.avg_rating
  IN StatsRow(newCallsTotal, newCallsSuccess,
       RoundDiv(currentLatency * (newCallsTotal - 1) + latencyMs * 100,
                newCallsTotal),
       RoundDiv(currentRating * (newCallsTotal - 1) * WeightOne + rating * weight,
                newCallsTotal * WeightOne))

(* ------------------------------------------------------------------ *)
(* QuarantineService                                                    *)
(* ------------------------------------------------------------------ *)
\* calls_success / calls_total < pct / 100, the rate being `dflt` percent
\* when calls_total = 0
RateLt(st, pct, dflt) ==
  IF st.calls_total > 0 THEN 100 * st.calls_success < pct * st.calls_total
  ELSE dflt < pct
RateGe(st, pct, dflt) == ~RateLt(st, pct, dflt)

\* Number(stats.avg_rating) || dflt
RatingOr(st, dflt) == IF st.avg_rating = 0 THEN dflt ELSE st.avg_rating

\* checkAgentHealth: the part of the report auto-review and the risk use
healthReport(agent, s, fraudPercentage, fraudStats) ==
  LET avgRating == RatingOr(s, 0)
      avgLatency == s.avg_latency_ms
      high ==
              \/ (s.calls_total >= T1SuccessCalls /\ RateLt(s, T1SuccessPct, 0))
              \/ (s.calls_total >= T1RatingCalls /\ avgRating < T1Rating)
              \/ (s.calls_total >= T1LatencyCalls /\ avgLatency > T1LatencyMs * 100)
              \/ PctGt(fraudPercentage, T1FraudPct)
      critical ==
              \/ (s.calls_total >= T2SuccessCalls /\ RateLt(s, T2SuccessPct, 0))
              \/ (s.calls_total >= T2RatingCalls /\ avgRating < T2Rating)
              \/ PctGt(fraudPercentage, T2FraudPct)
              \/ PctGt(fraudStats.selfRatingPercentage, T2SelfPct)
  IN IF agent = NoRow THEN NoRow
     ELSE IF s = NoRow
     THEN [status |-> agent.status, quarantine_risk |-> "low",
           fraud_percentage |-> 0, self_rating_percentage |-> 0,
           total_feedbacks |-> 0]
     ELSE [status |-> agent.status,
           quarantine_risk |-> IF critical THEN "critical"
                               ELSE IF high THEN "high" ELSE "low",
           fraud_percentage |-> PctTenths(fraudPercentage),
           self_rating_percentage |-> PctTenths(fraudStats.selfRatingPercentage),
           total_feedbacks |-> s.calls_total]

\* QuarantineService.checkAgentHealth: the rows and statistics it reads
checkAgentHealth(prod, ag, st, fb, fl, agentId) ==
  healthReport(findAgentById(ag, agentId), findStatsByAgentId(st, agentId),
               calculateFraudPercentage(prod, fb, fl, agentId),
               getFraudStats(ag, fb, agentId))

\* autoReviewAgents, active branch: the reason of the first rule that holds,
\* NoText when none does
quarantineReason(s, health) ==
  IF s.calls_total >= T1SuccessCalls /\ RateLt(s, T1SuccessPct, 100)
    THEN "Success rate < 40%"
  ELSE IF s.calls_total >= T1RatingCalls /\ RatingOr(s, 100) < T1Rating
    THEN "Average rating < 0.3"
  ELSE IF s.calls_total >= T1LatencyCalls /\ s.avg_latency_ms > T1LatencyMs * 100
    THEN "Latency > 30s"
  ELSE IF health.fraud_percentage > T1FraudPct * 10
    THEN "Fraud > 50%"
  ELSE NoText

\* autoReviewAgents, quarantine branch: the reason of the ban, NoText when
\* no Threshold 2 rule holds
banReason(s, health) ==
  IF s.calls_total >= T2SuccessCalls /\ RateLt(s, T2SuccessPct, 0)
    THEN "Threshold 2 reached: Success rate < 20%"
  ELSE IF s.calls_total >= T2RatingCalls /\ RatingOr(s, 0) < T2Rating
    THEN "Threshold 2 reached: Rating < 0.15"
  ELSE IF health.fraud_percentage > T2FraudPct * 10
    THEN "Threshold 2 reached: Fraud > 70%"
  ELSE IF health.self_rating_percentage > T2SelfPct * 10
    THEN "Threshold 2 reached: Self-rating > 80%"
  ELSE NoText

\* a reactivation test that would leave out fraud_percentage
canReactivateIgnoringFraud(s, health) ==
  /\ RateGe(s, ReactSuccessPct, 0)
  /\ RatingOr(s, 0) >= ReactRating

\* autoReviewAgents, quarantine branch: the test that reactivates
canReactivate(s, health) ==
  /\ RateGe(s, ReactSuccessPct, 0)
  /\ RatingOr(s, 0) >= ReactRating
  /\ health.fraud_percentage < ReactFraudPct * 10

\* autoReviewAgents, the body of the loop for one agent of the list read by
\* findAll (`snap` is that agent's row in the list): what is done to it
decide(snap, health, s) ==
  LET none == [op |-> "none", reason |-> NoText]
      activeBranch ==
        IF health.quarantine_risk \notin {"high", "critical"} THEN none
        ELSE IF s = NoRow THEN none
        ELSE IF quarantineReason(s, health) # NoText
          THEN [op |-> "quarantine", reason |-> quarantineReason(s, health)]
        ELSE none
      quarantineBranch ==
        IF s = NoRow THEN none
        ELSE IF banReason(s, health) # NoText
          THEN [op |-> "ban", reason |-> banReason(s, health)]
        ELSE IF canReactivate(s, health)
          THEN [op |-> "reactivate", reason |-> NoText]
        ELSE none
  IN IF health = NoRow THEN none
     ELSE IF snap.status = "active" THEN activeBranch
     ELSE IF snap.status = "quarantine" THEN quarantineBranch
     ELSE none

\* autoReviewAgents, the loop body's reads for one agent and what it decides
reviewDecision(prod, ag, st, fb, fl, snap) ==
  decide(snap, checkAgentHealth(prod, ag, st, fb, fl, snap.id),
         findStatsByAgentId(st, snap.id))

\* quarantineAgent / banAgent: UPDATE agents SET status, quarantine_reason,
\* quarantine_at WHERE id; the trigger update_agents_updated_at sets
\* updated_at on every UPDATE of agents
quarantineAgent(prod, ag, agentId, reason, t) ==
  IF ~prod \/ agentId \notin DOMAIN ag THEN ag
  ELSE [ag EXCEPT ![agentId].status = "quarantine",
                  ![agentId].quarantine_reason = reason,
                  ![agentId].quarantine_at = t,
                  ![agentId].updated_at = t]

banAgent(prod, ag, agentId, reason, t) ==
  IF ~prod \/ agentId \notin DOMAIN ag THEN ag
  ELSE [ag EXCEPT ![agentId].status = "banned",
                  ![agentId].quarantine_reason = reason,
                  ![agentId].quarantine_at = t,
                  ![agentId].updated_at = t]

\* a reactivation that would leave quarantine_reason as it is
reactivateAgentKeepingReason(prod, ag, agentId, t) ==
  IF ~prod \/ agentId \notin DOMAIN ag THEN ag
  ELSE [ag EXCEPT ![agentId].status = "active",
                  ![agentId].updated_at = t]

\* reactivateAgent: UPDATE agents SET status = 'active', quarantine_reason = NULL
reactivateAgent(prod, ag, agentId, t) ==
  IF ~prod \/ agentId \notin DOMAIN ag THEN ag
  ELSE [ag EXCEPT ![agentId].status = "active",
                  ![agentId].quarantine_reason = NoText,
                  ![agentId].updated_at = t]

\* the agents table after the loop body did `d` to the agent of `snap`
reviewApply(prod, ag, snap, d, t) ==
  CASE d.op = "quarantine" -> quarantineAgent(prod, ag, snap.id, d.reason, t)
    [] d.op = "ban" -> banAgent(prod, ag, snap.id, d.reason, t)
    [] d.op = "reactivate" -> reactivateAgent(prod, ag, snap.id, t)
    [] OTHER -> ag

\* the decisions of one run, for every row of the list
reviewDecisions(prod, ag, st, fb, fl, list) ==
  [snap \in list |-> reviewDecision(prod, ag, st, fb, fl, snap)]

ZeroCounts == [quarantined |-> 0, reactivated |-> 0, banned |-> 0]

\* agentRepo.findAll(): the rows as read at the start of the run
findAll(ag) == {[id |-> id, status |-> ag[id].status] : id \in DOMAIN ag}

\* a run that would ban without counting the ban in what it returns
\* the agents table after the loop ran over `list` with decisions `d`
reviewedAgents(prod, ag, list, d, t) ==
  [id \in DOMAIN ag |->
     reviewApply(prod, ag, CHOOSE snap \in list : snap.id = id,
                 d[CHOOSE snap \in list : snap.id = id], t)[id]]

\* a run that would ban without counting the ban in what it returns
reviewLoopUncounted(prod, ag, list, d, t) ==
  [agents |-> reviewedAgents(prod, ag, list, d, t),
   counts |->
     [quarantined |-> Cardinality({x \in list : d[x].op = "quarantine"}),
      reactivated |-> Cardinality({x \in list : d[x].op = "reactivate"}),
      banned |-> 0]]

\* autoReviewAgents, the loop: the agents table after it and the counts.
\* Each iteration reads and writes the rows of its own agent only, so the
\* order of the list does not matter.
reviewLoop(prod, ag, list, d, t) ==
  [agents |-> reviewedAgents(prod, ag, list, d, t),
   counts |->
     [quarantined |-> Cardinality({x \in list : d[x].op = "quarantine"}),
      reactivated |-> Cardinality({x \in list : d[x].op = "reactivate"}),
      banned |-> Cardinality({x \in list : d[x].op = "ban"})]]

\* autoReviewAgents: the agents table after the run and the counts returned
autoReviewAgents(prod, ag, st, fb, fl, t) ==
  IF ~prod THEN [agents |-> ag, counts |-> ZeroCounts]
  ELSE reviewLoop(prod, ag, findAll(ag),
                  reviewDecisions(prod, ag, st, fb, fl, findAll(ag)), t)

\* one run of the auto-review cron job
AutoReview ==
  \E r \in {autoReviewAgents(production, agents, stats, feedbacks, fraudLog, now)} :
    /\ agents' = r.agents
    /\ reviewResult' = r.counts
    /\ UNCHANGED <<production, now, ticks, stats, feedbacks, fraudLog,
                   callers, handlers, submits, searchResult, outside>>

(* ------------------------------------------------------------------ *)
(* SearchService: scoring (scores in millionths)                        *)
(* ------------------------------------------------------------------ *)
ScoreOne == 1000000
Frac(n, d) == (n * ScoreOne) \div d

\* SearchService.tokenize
tokenize(text) ==
  LET lower == toLowerCase(text)
  IN {p \in Range(split(lower, NonAlnum(lower))) : Len(p) >= 3}

\* the tokens of every text of a list
listTokens(list) == UNION {tokenize(list[i]) : i \in DOMAIN list}

calculateDescriptionScore(agent, requestDescription) ==
  LET tokens == tokenize(requestDescription)
      agentTokens == tokenize(agent.description) \cup listTokens(agent.tags)
                       \cup listTokens(agent.categories)
      overlap == Cardinality(tokens \cap agentTokens)
      norm == Min(Cardinality(tokens), 10)
  IN IF trim(requestDescription) = <<>> THEN ScoreOne \div 2
     ELSE IF tokens = {} THEN 0
     ELSE IF overlap = 0 THEN 0
     ELSE Min(ScoreOne, Frac(overlap, norm))

calculateHierarchicalScore(agentIntents, searchIntent) ==
  LET searchParts == split(searchIntent, {"."})
      agentParts(k) == split(agentIntents[k], {"."})
      sameSecond(k) ==
        IF Len(searchParts) >= 2 /\ Len(agentParts(k)) >= 2
        THEN searchParts[2] = agentParts(k)[2]
        ELSE Len(searchParts) < 2 /\ Len(agentParts(k)) < 2
      sameFirst(k) == searchParts[1] = agentParts(k)[1]
  IN IF searchIntent \in Range(agentIntents) THEN ScoreOne
     ELSE IF \E k \in DOMAIN agentIntents : sameFirst(k) /\ sameSecond(k)
       THEN 600000
     ELSE IF \E k \in DOMAIN agentIntents : sameFirst(k) THEN 300000
     ELSE 0

getTrigrams(str) ==
  LET padded == <<" ", " ">> \o str \o <<" ">>
  IN {SubSeq(padded, i, i + 2) : i \in 1..(Len(padded) - 2)}

trigramSimilarity(set1, set2) ==
  IF set1 \cup set2 = {} THEN 0
  ELSE Frac(Cardinality(set1 \cap set2), Cardinality(set1 \cup set2))

calculateStringSimilarity(str1, str2) ==
  LET seps == {".", " ", "_", "-"}
      set1 == {t \in Range(split(toLowerCase(str1), seps)) : Len(t) > 2}
      set2 == {t \in Range(split(toLowerCase(str2), seps)) : Len(t) > 2}
      jaccardScore == Frac(Cardinality(set1 \cap set2), Cardinality(set1 \cup set2))
      sims == {trigramSimilarity(getTrigrams(p[1]), getTrigrams(p[2])) :
                 p \in {q \in set1 \X set2 : q[1] # q[2]}}
      trigramBonus ==
        IF sims = {} THEN 0
        ELSE (3 * (CHOOSE x \in sims : \A y \in sims : y <= x)) \div 10
  IN IF set1 = {} \/ set2 = {} THEN 0
     ELSE Min(jaccardScore + trigramBonus, ScoreOne)

calculateTrigramScore(agentIntents, searchIntent) ==
  LET sims == {calculateStringSimilarity(searchIntent, agentIntents[k]) :
                 k \in DOMAIN agentIntents}
  IN IF searchIntent = <<>> \/ agentIntents = <<>> THEN 0
     ELSE Min(CHOOSE x \in sims : \A y \in sims : y <= x, ScoreOne)

calculateIntentScore(agentIntents, searchIntent) ==
  LET one(t) == Max(calculateHierarchicalScore(agentIntents, t),
                    (85 * calculateTrigramScore(agentIntents, t)) \div 100)
      scores == {one(searchIntent.items[i]) : i \in DOMAIN searchIntent.items}
  IN IF ~intentGiven(searchIntent) THEN ScoreOne \div 2
     ELSE IF scores = {} THEN 0
     ELSE CHOOSE x \in scores : \A y \in scores : y <= x

\* the non-empty trimmed lower-case parts of a location, split on , and /
locationParts(location) ==
  LET parts == split(location, {",", "/"})
      clean == [k \in DOMAIN parts |-> toLowerCase(trim(parts[k]))]
  IN SelectSeq(clean, LAMBDA x : x # <<>>)

\* a geo score that would give every agent 0.5 when no location is asked for
calculateGeoScoreUnlocated(agentLocation, searchLocation) ==
  LET searchVariants == locationParts(searchLocation)
      agentParts == locationParts(agentLocation)
      score(variant) ==
        IF variant = agentParts[1] THEN ScoreOne
        ELSE IF Len(agentParts) >= 2
                /\ (variant = agentParts[2] \/ includes(agentParts[2], variant)
                      \/ includes(variant, agentParts[2]))
          THEN 600000
        ELSE IF variant = agentParts[Len(agentParts)]
                \/ includes(agentParts[Len(agentParts)], variant)
                \/ includes(variant, agentParts[Len(agentParts)])
          THEN 300000
        ELSE 200000
      scores == {score(searchVariants[k]) : k \in DOMAIN searchVariants}
  IN IF searchLocation = <<>> \/ agentLocation = <<>> THEN 500000
     ELSE IF agentLocation = TGlobal THEN 300000
     ELSE IF searchVariants = <<>> \/ agentParts = <<>> THEN 200000
     ELSE CHOOSE x \in scores : \A y \in scores : y <= x

calculateGeoScore(agentLocation, searchLocation) ==
  LET searchVariants == locationParts(searchLocation)
      agentParts == locationParts(agentLocation)
      agentCity == agentParts[1]
      hasState == Len(agentParts) >= 2
      agentState == agentParts[2]
      agentCountry == agentParts[Len(agentParts)]
      score(variant) ==
        IF variant = agentCity THEN ScoreOne
        ELSE IF hasState /\ agentState # <<>>
                /\ (variant = agentState \/ includes(agentState, variant)
                      \/ includes(variant, agentState))
          THEN 600000
        ELSE IF variant = agentCountry \/ includes(agentCountry, variant)
                \/ includes(variant, agentCountry)
          THEN 300000
        ELSE 200000
      scores == {score(searchVariants[k]) : k \in DOMAIN searchVariants}
  IN IF searchLocation = <<>> \/ agentLocation = <<>>
       THEN (IF agentLocation = TGlobal THEN 300000 ELSE 500000)
     ELSE IF agentLocation = TGlobal THEN 300000
     ELSE IF searchVariants = <<>> \/ agentParts = <<>> THEN 200000
     ELSE CHOOSE x \in scores : \A y \in scores : y <= x

calculateListSimilarity(agentList, searchList) ==
  LET agentTokens == listTokens(agentList)
      hit(searchToken) ==
        \E agentToken \in agentTokens :
          includes(agentToken, searchToken) \/ includes(searchToken, agentToken)
      count(k) == Cardinality(tokenize(searchList[k]))
      matches(k) == Cardinality({t \in tokenize(searchList[k]) : hit(t)})
      searchTokens == SumOver([k \in DOMAIN searchList |-> count(k)], DOMAIN searchList)
  IN IF searchList = <<>> THEN ScoreOne
     ELSE IF agentList = <<>> THEN 0
     ELSE IF searchTokens = 0 THEN ScoreOne \div 2
     ELSE Frac(SumOver([k \in DOMAIN searchList |-> matches(k)], DOMAIN searchList),
               searchTokens)

calculateCategoryScore(agentCategories, searchCategories) ==
  calculateListSimilarity(agentCategories, searchCategories)

calculateTagScore(agentTags, searchTags) ==
  calculateListSimilarity(agentTags, searchTags)

\* avgLatencyMs in hundredths of a millisecond
calculateLatencyScore(avgLatencyMs) ==
  IF avgLatencyMs <= 500 * 100 THEN ScoreOne
  ELSE IF avgLatencyMs <= 1500 * 100 THEN 700000
  ELSE IF avgLatencyMs <= 3000 * 100 THEN 400000
  ELSE 200000

\* calculateScore, the five factors that depend only on the texts of the
\* agent and of the request
textScore(agent, request) ==
  [intent |-> calculateIntentScore(agent.intents, request.intent),
   description |-> calculateDescriptionScore(agent, request.description),
   geo |-> calculateGeoScore(agent.location_scope, request.location),
   category |-> calculateCategoryScore(agent.categories, request.categories),
   tag |-> calculateTagScore(agent.tags, request.tags)]

\* the texts of a registration
textsOf(agent) ==
  [description |-> agent.description, intents |-> agent.intents,
   tags |-> agent.tags, categories |-> agent.categories,
   location_scope |-> agent.location_scope]

\* textScore of the registrations and requests of the model, computed once
TextScores ==
  [a \in {textsOf(PWeather), textsOf(PStorm)}, q \in SearchRequests \cup RankRequests \cup LimitRequests |->
     textScore(a, q)]

\* the entry of `table` at `key`, or `value` when the table has none
Memo(table, key, value) == IF key \in DOMAIN table THEN table[key] ELSE value

\* calculateScore: the weighted sum of the factors, less the penalty of an
\* agent in quarantine
finalScore(agent, text, s, fraudPercentage) ==
  LET rated == s # NoRow /\ s.calls_total > 0
      successRate == IF rated THEN Frac(s.calls_success, s.calls_total) ELSE 0
      ratingScore == IF rated THEN s.avg_rating * (ScoreOne \div 100) ELSE 0
      latencyScore == IF rated THEN calculateLatencyScore(s.avg_latency_ms) ELSE 0
      fraudScore == ScoreOne - (fraudPercentage.n * (ScoreOne \div 100)) \div fraudPercentage.d
      weighted ==
        (text.intent * 25 + text.description * 10 + text.category * 10
           + text.geo * 20 + successRate * 14 + ratingScore * 9 + text.tag * 7
           + latencyScore * 3 + fraudScore * 4) \div 100
  IN IF agent.status = "quarantine" THEN Max(0, weighted - 300000)
     ELSE weighted

\* calculateScore: the final score of one agent for a request
calculateScore(prod, ag, st, fb, fl, id, request) ==
  finalScore(ag[id],
             Memo(TextScores, <<textsOf(ag[id]), request>>, textScore(ag[id], request)),
             findStatsByAgentId(st, id),
             calculateFraudPercentage(prod, fb, fl, id))

(* ------------------------------------------------------------------ *)
(* SearchService.search and the queries it runs                         *)
(* ------------------------------------------------------------------ *)
\* the rows of the agents table in the order the database returns them
tableRows(ag, rowOrder) == SelectSeq(rowOrder, LAMBDA id : id \in DOMAIN ag)

\* AgentRepository.search
repoSearch(ag, rowOrder, intent, categories, language) ==
  LET intentOk(a) ==
        IF ~intentGiven(intent) THEN TRUE
        ELSE IF intent.array THEN Range(a.intents) \cap Range(intent.items) # {}
        ELSE intent.items[1] \in Range(a.intents)
      categoriesOk(a) ==
        categories = <<>> \/ Range(a.categories) \cap Range(categories) # {}
      languageOk(a) == language = "" \/ language \in Range(a.languages)
  IN SelectSeq(tableRows(ag, rowOrder),
       LAMBDA id : intentOk(ag[id]) /\ categoriesOk(ag[id]) /\ languageOk(ag[id]))

\* array_to_string(intents, ',')
RECURSIVE arrayToString(_)
arrayToString(list) ==
  IF list = <<>> THEN <<>>
  ELSE IF Len(list) = 1 THEN list[1]
  ELSE list[1] \o <<",">> \o arrayToString(Tail(list))

\* pg_trgm: the trigrams of the words of a text
pgTrigrams(text) ==
  LET lower == toLowerCase(text)
      words == {w \in Range(split(lower, NonAlnum(lower))) : w # <<>>}
  IN UNION {getTrigrams(w) : w \in words}

\* similarity(a, b), in millionths
pgSimilarity(a, b) ==
  LET ta == pgTrigrams(a)
      tb == pgTrigrams(b)
  IN IF ta \cup tb = {} THEN 0
     ELSE Frac(Cardinality(ta \cap tb), Cardinality(ta \cup tb))

\* pgSimilarity of the registrations and requests of the model, computed once
Similarities ==
  [a \in {arrayToString(PWeather.intents), arrayToString(PStorm.intents)},
   b \in {TWeatherForecast, TWeatherForcast} |-> pgSimilarity(a, b)]

similarity(a, b) == Memo(Similarities, <<a, b>>, pgSimilarity(a, b))

\* a stable sort of ids by descending key
RECURSIVE sortDesc(_, _)
sortDesc(ids, key) ==
  IF ids = <<>> THEN <<>>
  ELSE LET best == CHOOSE i \in DOMAIN ids :
                     /\ \A j \in DOMAIN ids : key[ids[j]] <= key[ids[i]]
                     /\ \A j \in 1..(i - 1) : key[ids[j]] < key[ids[i]]
       IN <<ids[best]>> \o
            sortDesc([k \in 1..(Len(ids) - 1) |-> IF k < best THEN ids[k] ELSE ids[k + 1]],
                     key)

\* AgentRepository.searchByIntentFuzzy: ORDER BY intent_similarity DESC LIMIT
searchByIntentFuzzy(ag, rowOrder, intent, limit) ==
  LET sim == [id \in DOMAIN ag |-> similarity(arrayToString(ag[id].intents), intent)]
      rows == SelectSeq(tableRows(ag, rowOrder), LAMBDA id : sim[id] >= 200000)
      sorted == sortDesc(rows, sim)
  IN SubSeq(sorted, 1, Min(limit, Len(sorted)))

\* Array.prototype.slice(0, end)
slice(seq, end) ==
  IF end >= 0 THEN SubSeq(seq, 1, Min(end, Len(seq)))
  ELSE SubSeq(seq, 1, Max(0, Len(seq) + end))

PlaceholderLocations ==
  {<<"n", "u", "l", "l">>, <<"u", "n", "d", "e", "f", "i", "n", "e", "d">>,
   <<"n", "o", "n", "e">>, <<"n", "/", "a">>}

\* search without the filter on status: every candidate is kept
activeAgentsUnfiltered(ag, candidates) == candidates

\* search: candidates.filter(agent => agent.status !== 'banned')
activeAgents(ag, candidates) ==
  SelectSeq(candidates, LAMBDA id : ag[id].status # "banned")

\* search: the stage whose query produced the candidates, and the candidates
selectCandidates(ag, rowOrder, request, filtered, byIntent, fuzzyLimit, fuzzy) ==
  LET stage ==
        IF filtered # <<>> THEN "filtered"
        ELSE IF ~intentGiven(request.intent) THEN "all"
        ELSE IF byIntent # <<>> THEN "intent"
        ELSE IF fuzzy # <<>> THEN "fuzzy"
        ELSE "all"
  IN [stage |-> stage,
      candidates |-> CASE stage = "filtered" -> filtered
                       [] stage = "intent" -> byIntent
                       [] stage = "fuzzy" -> fuzzy
                       [] OTHER -> tableRows(ag, rowOrder),
      failed |-> \/ request.categories = <<>>
                 \/ (filtered = <<>> /\ intentGiven(request.intent)
                       /\ byIntent = <<>> /\ fuzzyLimit < 0)]

\* search: the queries, from the strictest to the loosest
findCandidates(ag, rowOrder, request, fuzzyLimit, intentForFuzzy) ==
  selectCandidates(ag, rowOrder, request,
    repoSearch(ag, rowOrder, request.intent, request.categories, request.language),
    repoSearch(ag, rowOrder, request.intent, <<>>, request.language),
    fuzzyLimit,
    IF request.intent.array /\ request.intent.items = <<>> THEN <<>>
    ELSE searchByIntentFuzzy(ag, rowOrder, intentForFuzzy, fuzzyLimit))

\* a ranking that would keep every agent whatever its location
topAgentsAnywhere(ag, request, normalizedLocation, active, score) ==
  LET filteredAgents == SelectSeq(active, LAMBDA id : score[id] >= 400000)
      limit == Min(IF request.limit = 0 THEN 10 ELSE request.limit, 10)
  IN slice(sortDesc(filteredAgents, score), limit)

\* search: the agents kept by the thresholds on score and location, best first
topAgents(ag, request, normalizedLocation, active, score) ==
  LET hasMinGeo(id) ==
        \/ normalizedLocation = <<>>
        \/ ag[id].location_scope = TGlobal
        \/ calculateGeoScore(ag[id].location_scope, normalizedLocation) >= 300000
      filteredAgents ==
        SelectSeq(active, LAMBDA id : score[id] >= 400000 /\ hasMinGeo(id))
      limit == Min(IF request.limit = 0 THEN 10 ELSE request.limit, 10)
  IN slice(sortDesc(filteredAgents, score), limit)

\* search: the response
searchResponse(ag, found, score, top) ==
  IF found.failed
  THEN [status |-> 400, stage |-> "none", candidates |-> <<>>, items |-> <<>>]
  ELSE [status |-> 200, stage |-> found.stage, candidates |-> found.candidates,
        items |-> [k \in DOMAIN top |->
                     [id |-> top[k],
                      caller_id |-> ag[top[k]].caller_id,
                      score |-> RoundDiv(score[top[k]], 10000)]]]

\* search: the score of every candidate that is not banned
scoreAgents(prod, ag, st, fb, fl, request, active) ==
  [id \in Range(active) |-> calculateScore(prod, ag, st, fb, fl, id, request)]

\* search: rank the scored agents and respond
rankAgents(ag, request, normalizedLocation, found, active, score) ==
  searchResponse(ag, found, score,
                 topAgents(ag, request, normalizedLocation, active, score))

\* search: drop the banned candidates, score the others and respond
filterCandidates(prod, ag, st, fb, fl, request, normalizedLocation, found) ==
  rankAgents(ag, request, normalizedLocation, found,
             activeAgents(ag, found.candidates),
             scoreAgents(prod, ag, st, fb, fl, request,
                         activeAgents(ag, found.candidates)))

\* SearchService.search
search(prod, ag, st, fb, fl, request, rowOrder) ==
  filterCandidates(prod, ag, st, fb, fl, request,
    IF toLowerCase(request.location) \in PlaceholderLocations THEN <<>>
    ELSE request.location,
    findCandidates(ag, rowOrder, request,
      IF request.limit = 0 THEN 50 ELSE request.limit,
      IF request.intent.items = <<>> THEN <<>> ELSE request.intent.items[1]))

(* ------------------------------------------------------------------ *)
(* Request router and AuthService                                       *)
(* ------------------------------------------------------------------ *)
SessionTtl == 1440

\* a row of callers as getOrCreateToken writes it; jwt_token is the column
\* `secret` here
CallerRow(type, identifier, secret, expires) ==
  [caller_id |-> generateCallerId(type, identifier), type |-> type,
   identifier |-> identifier, secret |-> secret,
   token_expires_at |-> expires, is_active |-> TRUE]

\* SELECT * FROM callers WHERE caller_id = $1, rows[0] or null
callerById(cl, callerId) ==
  LET rows == {k \in DOMAIN cl : cl[k].caller_id = callerId}
  IN IF rows = {} THEN NoRow ELSE cl[CHOOSE k \in rows : \A j \in rows : k <= j]

\* the caller_id column of the table
callerIds(cl) == {cl[k].caller_id : k \in DOMAIN cl}

\* a session token signed for `callerId` that verifies at time t exists
\* exactly when the last one issued has not expired
hasValidToken(cl, callerId, type, t) ==
  LET row == callerById(cl, callerId)
  IN /\ row # NoRow
     /\ row.type = type
     /\ row.token_expires_at > t

\* the characters of the identifiers in use; an address is 10.0.0.x
Ip(last) == <<"1", "0", ".", "0", ".", "0", ".", last>>

chars(identifier) ==
  CASE identifier = "acme|10.0.0.1" -> <<"a", "c", "m", "e", "|">> \o Ip("1")
    [] identifier = "acme|10.0.0.3" -> <<"a", "c", "m", "e", "|">> \o Ip("3")
    [] identifier = "a\\b|10.0.0.1" -> <<"a", "\\", "b", "|">> \o Ip("1")
    [] identifier = "a\\b|10.0.0.3" -> <<"a", "\\", "b", "|">> \o Ip("3")
    [] identifier = "10.0.0.2" -> Ip("2")
    [] identifier = "10.0.0.7" -> Ip("7")
    [] identifier = "10.0.0.8" -> Ip("8")
    [] identifier = "10.0.0.9" -> Ip("9")

\* identifier.split('|')[0]: the client-id part of `clientId|ip`, or the
\* whole identifier when it holds no '|'
RECURSIVE clientIdPart(_)
clientIdPart(text) ==
  IF text = <<>> \/ Head(text) = "|" THEN <<>>
  ELSE <<Head(text)>> \o clientIdPart(Tail(text))

\* text LIKE pattern in PostgreSQL: % is any run of characters, _ any one
\* character, and a backslash makes the character after it literal
RECURSIVE like(_, _)
like(text, pattern) ==
  IF pattern = <<>> THEN text = <<>>
  ELSE IF Head(pattern) = "%"
    THEN like(text, Tail(pattern)) \/ (text # <<>> /\ like(Tail(text), pattern))
  ELSE IF Head(pattern) = "_"
    THEN text # <<>> /\ like(Tail(text), Tail(pattern))
  ELSE IF Head(pattern) = "\\" /\ Len(pattern) > 1
    THEN /\ text # <<>>
         /\ Head(text) = pattern[2]
         /\ like(Tail(text), Tail(Tail(pattern)))
  ELSE text # <<>> /\ Head(text) = Head(pattern) /\ like(Tail(text), Tail(pattern))

\* getOrCreateToken: `clientIdPart && clientIdPart !== identifier`
hasClientId(identifier) ==
  /\ clientIdPart(chars(identifier)) # <<>>
  /\ clientIdPart(chars(identifier)) # chars(identifier)

\* SELECT * FROM callers WHERE type = $1 AND identifier LIKE 'clientId|%':
\* the rows found
conflictRows(cl, type, identifier) ==
  {k \in DOMAIN cl :
     /\ cl[k].type = type
     /\ like(chars(cl[k].identifier),
             clientIdPart(chars(identifier)) \o <<"|", "%">>)}

\* getOrCreateToken: the anti-spoof check.  Only the first row of the query,
\* whichever the database returns first, is compared with the identifier;
\* here the request fails when no row found is the identifier's own
identityMismatch(cl, type, identifier) ==
  LET conflict == conflictRows(cl, type, identifier)
  IN /\ hasClientId(identifier)
     /\ conflict # {}
     /\ \A c \in conflict : cl[c].identifier # identifier

\* process.env.JWT_SECRET, the registry master secret
JWT_SECRET == "master"
\* EXECUTION_KEY_EXPIRATION, 300 seconds, in minutes
EXECUTION_KEY_EXPIRATION == 5

\* encryptSecret: AES-256-CBC under a key derived from JWT_SECRET, written
\* `iv:data`; the ciphertext is kept symbolic
encryptSecret(secret) ==
  CASE secret = "s1" -> "iv:aes(master,s1)"
    [] secret = "s2" -> "iv:aes(master,s2)"
    [] secret = "s3" -> "iv:aes(master,s3)"

\* decryptSecret: the plaintext of what encryptSecret wrote under the
\* current JWT_SECRET; NoText when it throws (no `iv:data` format, or data
\* that was encrypted under another key)
decryptSecret(encrypted) ==
  CASE encrypted = "iv:aes(master,s1)" -> "s1"
    [] encrypted = "iv:aes(master,s2)" -> "s2"
    [] encrypted = "iv:aes(master,s3)" -> "s3"
    [] OTHER -> NoText

\* a getProviderSecret that would never find a secret
getProviderSecretNone(cl, callerId) == NoText

\* AuthService.getProviderSecret: null for a missing row, a row that is not
\* a provider's, an empty column, or a value that does not decrypt
getProviderSecret(cl, callerId) ==
  LET row == callerById(cl, callerId)
  IN IF row = NoRow THEN NoText
     ELSE IF row.type # "provider" \/ row.secret = NoText THEN NoText
     ELSE decryptSecret(row.secret)

\* jwt.sign(payload, secret, {expiresIn}): the token is kept symbolic, its
\* payload, its expiry and the secret that signed it; key_id, 16 random
\* bytes that nothing reads, is left out
\* AuthService.generateExecutionKey
generateExecutionKey(consumerCallerId, agentId, executionSecret, t) ==
  [key |-> [consumer_caller_id |-> consumerCallerId, agent_id |-> agentId,
            exp |-> t + EXECUTION_KEY_EXPIRATION,
            secret |-> IF executionSecret = NoText THEN JWT_SECRET
                       ELSE executionSecret],
   expires_at |-> t + EXECUTION_KEY_EXPIRATION]

\* AuthService.verifyExecutionKey, as a provider calls it with its secret
verifyExecutionKey(executionKey, agentId, executionSecret, t) ==
  /\ executionKey.secret = (IF executionSecret = NoText THEN JWT_SECRET
                            ELSE executionSecret)
  /\ t < executionKey.exp
  /\ executionKey.agent_id = agentId

\* POST /auth/token -> AuthService.getOrCreateToken
Token(type, identifier, secret) ==
  LET id == generateCallerId(type, identifier)
  IN /\ type = "provider" => secret # NoText
     /\ ~identityMismatch(callers, type, identifier)
     /\ callers' =
          IF id \in callerIds(callers)
          THEN [k \in DOMAIN callers |->
                  IF callers[k].caller_id = id
                  THEN [callers[k] EXCEPT
                          !.secret = IF type = "provider" THEN encryptSecret(secret) ELSE @,
                          !.token_expires_at = now + SessionTtl]
                  ELSE callers[k]]
          ELSE Append(callers,
                      CallerRow(type, identifier,
                                IF type = "provider" THEN encryptSecret(secret)
                                ELSE NoText,
                                now + SessionTtl))
     /\ UNCHANGED <<production, now, ticks, agents, stats, feedbacks, fraudLog,
                    handlers, submits, reviewResult, searchResult, outside>>

\* a /auth/token that would answer the identity mismatch with 403
tokenReplyForbidding(cl, type, identifier, secret) ==
  IF type \notin {"consumer", "provider"} THEN 400
  ELSE IF type = "provider" /\ secret = NoText THEN 500
  ELSE IF identityMismatch(cl, type, identifier) THEN 403
  ELSE 200

\* POST /auth/token: the status of the reply.  Whatever getOrCreateToken
\* throws is caught and answered 500
tokenReply(cl, type, identifier, secret) ==
  IF type \notin {"consumer", "provider"} THEN 400
  ELSE IF type = "provider" /\ secret = NoText THEN 500
  ELSE IF identityMismatch(cl, type, identifier) THEN 500
  ELSE 200

(* ------------------------------------------------------------------ *)
(* RegisterService                                                      *)
(* ------------------------------------------------------------------ *)
\* String.prototype.startsWith
startsWith(text, prefix) ==
  /\ Len(text) >= Len(prefix)
  /\ SubSeq(text, 1, Len(prefix)) = prefix

\* the characters of `text` before the first one out of `stops`
RECURSIVE upTo(_, _)
upTo(text, stops) ==
  IF text = <<>> \/ Head(text) \in stops THEN <<>>
  ELSE <<Head(text)>> \o upTo(Tail(text), stops)

\* the decimal number `digits` writes, 0 for none
RECURSIVE decimal(_)
decimal(digits) ==
  IF digits = <<>> THEN 0
  ELSE decimal(SubSeq(digits, 1, Len(digits) - 1)) * 10
       + (CHOOSE d \in 0..9 : ToString(d) = digits[Len(digits)])

\* code points a host may not hold
ForbiddenHost == {" ", "<", ">", "^", "|", "%", "@", "[", "]"}

\* new URL(text) does not throw.  A URL needs a scheme; one of http and
\* https, in any case, needs a host without forbidden code points, and its
\* port, if any, is a number up to 65535.  Covers scheme://host[:port][/path].
newURL(text) ==
  LET scheme == upTo(text, {":"})
      rest == SubSeq(text, Len(scheme) + 2, Len(text))
      authority == IF startsWith(rest, <<"/", "/">>)
                   THEN upTo(SubSeq(rest, 3, Len(rest)), {"/", "?", "#"})
                   ELSE upTo(rest, {"/", "?", "#"})
      host == upTo(authority, {":"})
      port == SubSeq(authority, Len(host) + 2, Len(authority))
  IN /\ Len(scheme) < Len(text)
     /\ scheme # <<>>
     /\ Head(scheme) \in Range(LowerLetters) \cup Range(UpperLetters)
     /\ \A c \in Range(scheme) : IsAlnum(c) \/ c \in {"+", "-", "."}
     /\ toLowerCase(scheme) \in {<<"h", "t", "t", "p">>, <<"h", "t", "t", "p", "s">>} =>
          /\ host # <<>>
          /\ Range(host) \cap ForbiddenHost = {}
          /\ Range(port) \subseteq Digits
          /\ decimal(port) <= 65535

\* a validateEndpoint that would treat production as development
validateEndpointAsDevelopment(prod, endpoint) ==
  /\ \/ startsWith(endpoint, Https)
     \/ startsWith(endpoint, Http \o Localhost \o <<":">>)
     \/ startsWith(endpoint, Http \o Loopback \o <<":">>)
  /\ newURL(endpoint)

\* RegisterService.validateEndpoint does not throw
validateEndpoint(prod, endpoint) ==
  /\ IF prod THEN startsWith(endpoint, Https)
     ELSE LET isLocalhost == \/ startsWith(endpoint, Http \o Localhost \o <<":">>)
                             \/ startsWith(endpoint, Http \o Loopback \o <<":">>)
                             \/ startsWith(endpoint, Https \o Localhost \o <<":">>)
                             \/ startsWith(endpoint, Https \o Loopback \o <<":">>)
              isHttps == startsWith(endpoint, Https)
              isHttpPublic == startsWith(endpoint, Http) /\ ~isLocalhost
          IN ~isHttpPublic /\ (isLocalhost \/ isHttps)
  /\ newURL(endpoint)

\* RegisterService.validateRequest does not throw
validateRegister(payload) ==
  /\ payload.name # ""
  /\ Range(payload.endpoint) \ {" "} # {}
  /\ payload.description # <<>>
  /\ Len(payload.intents) > 0
  /\ Len(payload.categories) > 0
  /\ Len(payload.languages) > 0

AgentRow(payload, callerId, status, reason, at, updatedAt) ==
  [caller_id |-> callerId, status |-> status,
   quarantine_reason |-> reason, quarantine_at |-> at, updated_at |-> updatedAt,
   name |-> payload.name, endpoint |-> payload.endpoint,
   description |-> payload.description, intents |-> payload.intents,
   tags |-> payload.tags, categories |-> payload.categories,
   location_scope |-> payload.location_scope, languages |-> payload.languages]

\* an upsert whose update would write the whole row, status included, as
\* its insert does
upsertResetting(ag, id, payload, callerId, t) ==
  [a \in DOMAIN ag \cup {id} |->
     IF a = id THEN AgentRow(payload, callerId, "active", NoText, NoTime, t)
     ELSE ag[a]]

\* AgentRepository.upsert: update keeps status and the quarantine columns
\* an upsert that would write a fresh row over the old one
upsertReset(ag, id, payload, callerId, t) ==
  [a \in DOMAIN ag \cup {id} |->
     IF a = id THEN AgentRow(payload, callerId, "active", NoText, NoTime, t)
     ELSE ag[a]]

\* an upsert that would leave an existing agent with its owner
upsertKeepOwner(ag, id, payload, callerId, t) ==
  IF id \in DOMAIN ag
  THEN [ag EXCEPT ![id] = AgentRow(payload, @.caller_id, @.status,
                                   @.quarantine_reason, @.quarantine_at, t)]
  ELSE [a \in DOMAIN ag \cup {id} |->
          IF a = id THEN AgentRow(payload, callerId, "active", NoText, NoTime, t)
          ELSE ag[a]]

upsert(ag, id, payload, callerId, t) ==
  IF id \in DOMAIN ag
  THEN [ag EXCEPT ![id] = AgentRow(payload, callerId, @.status,
                                   @.quarantine_reason, @.quarantine_at, t)]
  ELSE [a \in DOMAIN ag \cup {id} |->
          IF a = id THEN AgentRow(payload, callerId, "active", NoText, NoTime, t)
          ELSE ag[a]]

\* statsRepo.create of register: only when no row exists
ensureStats(st, id) ==
  IF id \in DOMAIN st THEN st
  ELSE [a \in DOMAIN st \cup {id} |->
          IF a = id THEN StatsRow(0, 0, 0, 0) ELSE st[a]]

\* POST /register after the preHandler: RegisterService.register with the
\* caller_id of the session token
Registration(callerId, id, payload) ==
  /\ validateRegister(payload)
  /\ validateEndpoint(production, payload.endpoint)
  /\ agents' = upsert(agents, id, payload, callerId, now)
  /\ stats' = ensureStats(stats, id)
  /\ UNCHANGED <<production, now, ticks, feedbacks, fraudLog, callers,
                 handlers, submits, reviewResult, searchResult>>

\* POST /register by a provider holding a valid session token
Register(callerId, id, payload) ==
  /\ hasValidToken(callers, callerId, "provider", now)
  /\ Registration(callerId, id, payload)
  /\ UNCHANGED outside

\* POST /register by a provider holding a valid session token, with the
\* reply: 200, or 400 when the service threw
RegisterReplying(callerId, id, payload) ==
  /\ hasValidToken(callers, callerId, "provider", now)
  /\ IF validateRegister(payload) /\ validateEndpoint(production, payload.endpoint)
     THEN /\ Registration(callerId, id, payload)
          /\ registerReply' = [id |-> id, endpoint |-> payload.endpoint, status |-> 200]
     ELSE /\ registerReply' = [id |-> id, endpoint |-> payload.endpoint, status |-> 400]
          /\ UNCHANGED <<production, now, ticks, agents, stats, feedbacks, fraudLog,
                         callers, handlers, submits, reviewResult, searchResult>>
  /\ UNCHANGED <<ipRateLimits, executeReply, refusal, tokenHandlers, issuedTokens,
                 registering>>

(* ------------------------------------------------------------------ *)
(* FeedbackService.submitFeedback, one action per database round trip   *)
(* ------------------------------------------------------------------ *)
Handlers == {"h1", "h2"}
Ratings == {0, 100}

IdleHandler == [pc |-> "idle", req |-> NoRow, weight |-> 0,
                existing |-> NoRow, result |-> "none"]

\* validateRequest of FeedbackService
validateFeedback(req) ==
  /\ req.agent_id # ""
  /\ req.latency_ms >= 0
  /\ req.rating >= 0 /\ req.rating <= 100

FeedbackRow(req, t) ==
  [agent_id |-> req.agent_id, consumer_id |-> req.consumer_id,
   success |-> req.success, latency_ms |-> req.latency_ms,
   rating |-> req.rating, created_at |-> t]

\* POST /feedback arrives with a consumer's session token; the request is
\* validated and the rate limit counted
FbSubmit(h, consumerId, agentId, success, latencyMs, rating) ==
  LET req == [agent_id |-> agentId, consumer_id |-> consumerId,
              success |-> success, latency_ms |-> latencyMs, rating |-> rating]
  IN /\ handlers[h].pc = "idle"
     /\ submits < MaxRequests
     /\ hasValidToken(callers, consumerId, "consumer", now)
     /\ submits' = submits + 1
     /\ handlers' = [handlers EXCEPT ![h] =
          IF ~validateFeedback(req)
            THEN [IdleHandler EXCEPT !.result = "VALIDATION_ERROR"]
          ELSE IF countRecentByConsumer(feedbacks, consumerId, now) >= RateLimitPerMinute
            THEN [IdleHandler EXCEPT !.result = "RATE_LIMITED"]
          ELSE [IdleHandler EXCEPT !.pc = "lookup", !.req = req]]
     /\ UNCHANGED <<production, now, ticks, agents, stats, feedbacks, fraudLog,
                    callers, reviewResult, searchResult, outside>>

\* agentRepo.findById
FbLookup(h) ==
  /\ handlers[h].pc = "lookup"
  /\ handlers' = [handlers EXCEPT ![h] =
       IF findAgentById(agents, @.req.agent_id) = NoRow
       THEN [IdleHandler EXCEPT !.result = "NOT_FOUND"]
       ELSE [@ EXCEPT !.pc = "fraud"]]
  /\ UNCHANGED <<production, now, ticks, agents, stats, feedbacks, fraudLog,
                 callers, submits, reviewResult, searchResult, outside>>

\* fraudService.analyzeFeedback
FbFraud(h) ==
  LET req == handlers[h].req
      a == analyzeFeedback(production, agents, feedbacks, fraudLog,
                           req.consumer_id, req.agent_id, now)
  IN /\ handlers[h].pc = "fraud"
     /\ fraudLog' = a.log
     /\ handlers' = [handlers EXCEPT ![h] =
          IF a.shouldBlock
          THEN [IdleHandler EXCEPT !.result = "BLOCKED_SPAM"]
          ELSE [@ EXCEPT !.pc = "insert", !.weight = a.totalWeight]]
     /\ UNCHANGED <<production, now, ticks, agents, stats, feedbacks,
                    callers, submits, reviewResult, searchResult, outside>>

\* feedbackRepo.create
FbInsert(h) ==
  /\ handlers[h].pc = "insert"
  /\ feedbacks' = InsertRow(feedbacks, FeedbackRow(handlers[h].req, now))
  /\ handlers' = [handlers EXCEPT ![h].pc = "read"]
  /\ UNCHANGED <<production, now, ticks, agents, stats, fraudLog,
                 callers, submits, reviewResult, searchResult, outside>>

\* incrementFeedbackWeighted: const existing = await this.findByAgentId(agentId)
FbRead(h) ==
  /\ handlers[h].pc = "read"
  /\ handlers' = [handlers EXCEPT
       ![h].pc = "write",
       ![h].existing = findStatsByAgentId(stats, handlers[h].req.agent_id)]
  /\ UNCHANGED <<production, now, ticks, agents, stats, feedbacks, fraudLog,
                 callers, submits, reviewResult, searchResult, outside>>

\* the stats table after incrementFeedbackWeighted's create or update
writeStats(st, existing, req, weight) ==
  IF existing = NoRow
  THEN IF req.agent_id \in DOMAIN st THEN st
       ELSE [a \in DOMAIN st \cup {req.agent_id} |->
               IF a = req.agent_id
               THEN newStats(req.success, req.latency_ms, req.rating, weight)
               ELSE st[a]]
  ELSE IF req.agent_id \notin DOMAIN st THEN st
       ELSE [st EXCEPT ![req.agent_id] =
               updatedStats(existing, req.success, req.latency_ms, req.rating, weight)]

\* incrementFeedbackWeighted: this.create(newStats) or this.update(updatedStats)
FbWrite(h) ==
  LET hd == handlers[h]
  IN /\ hd.pc = "write"
     /\ stats' = writeStats(stats, hd.existing, hd.req, hd.weight)
     /\ handlers' = [handlers EXCEPT ![h] =
          IF hd.existing = NoRow /\ hd.req.agent_id \in DOMAIN stats
          THEN [IdleHandler EXCEPT !.result = "INTERNAL"]
          ELSE [IdleHandler EXCEPT !.result = "ok"]]
     /\ UNCHANGED <<production, now, ticks, agents, feedbacks, fraudLog,
                    callers, submits, reviewResult, searchResult, outside>>

\* a submitFeedback that would store the Feedback row before the fraud
\* analysis: a request blocked as spam leaves its row behind
submitFeedbackInsertFirst(prod, ag, st, fb, fl, req, t) ==
  LET a == analyzeFeedback(prod, ag, fb, fl, req.consumer_id, req.agent_id, t)
      fb1 == InsertRow(fb, FeedbackRow(req, t))
      existing == findStatsByAgentId(st, req.agent_id)
      same(result) == [result |-> result, stats |-> st, feedbacks |-> fb,
                       fraudLog |-> fl, weight |-> 0]
  IN IF ~validateFeedback(req) THEN same("VALIDATION_ERROR")
     ELSE IF countRecentByConsumer(fb, req.consumer_id, t) >= RateLimitPerMinute
       THEN same("RATE_LIMITED")
     ELSE IF findAgentById(ag, req.agent_id) = NoRow THEN same("NOT_FOUND")
     ELSE IF a.shouldBlock
       THEN [same("BLOCKED_SPAM") EXCEPT !.fraudLog = a.log, !.feedbacks = fb1]
     ELSE [result |-> "ok", stats |-> writeStats(st, existing, req, a.totalWeight),
           feedbacks |-> fb1, fraudLog |-> a.log, weight |-> a.totalWeight]

\* submitFeedback run from its first line to its return with no other
\* request in between: the outcome and the tables after it
submitFeedback(prod, ag, st, fb, fl, req, t) ==
  LET a == analyzeFeedback(prod, ag, fb, fl, req.consumer_id, req.agent_id, t)
      fb1 == InsertRow(fb, FeedbackRow(req, t))
      existing == findStatsByAgentId(st, req.agent_id)
      same(result) == [result |-> result, stats |-> st, feedbacks |-> fb,
                       fraudLog |-> fl, weight |-> 0]
  IN IF ~validateFeedback(req) THEN same("VALIDATION_ERROR")
     ELSE IF countRecentByConsumer(fb, req.consumer_id, t) >= RateLimitPerMinute
       THEN same("RATE_LIMITED")
     ELSE IF findAgentById(ag, req.agent_id) = NoRow THEN same("NOT_FOUND")
     ELSE IF a.shouldBlock
       THEN [same("BLOCKED_SPAM") EXCEPT !.fraudLog = a.log]
     ELSE [result |-> "ok", stats |-> writeStats(st, existing, req, a.totalWeight),
           feedbacks |-> fb1, fraudLog |-> a.log, weight |-> a.totalWeight]

\* agent ids nobody registered
UnknownId == "rate limit"
MissingId == "a9"

\* the characters of an agent id
idText(id) ==
  CASE id = "a1" -> <<"a", "1">>
    [] id = "a2" -> <<"a", "2">>
    [] id = MissingId -> <<"a", "9">>
    [] id = UnknownId ->
         <<"r", "a", "t", "e", " ", "l", "i", "m", "i", "t">>

\* the messages of the errors submitFeedback throws
MsgRateLimit ==
  <<"F", "e", "e", "d", "b", "a", "c", "k", " ", "r", "a", "t", "e",
    " ", "l", "i", "m", "i", "t", " ", "e", "x", "c", "e", "e", "d",
    "e", "d", ":", " ", "m", "a", "x", " ", "6", "0", " ", "p", "e",
    "r", " ", "m", "i", "n", "u", "t", "e">>
MsgBlocked ==
  <<"F", "e", "e", "d", "b", "a", "c", "k", " ", "b", "l", "o", "c",
    "k", "e", "d", ":", " ", "s", "p", "a", "m", " ", "d", "e", "t",
    "e", "c", "t", "e", "d">>
MsgRating ==
  <<"F", "i", "e", "l", "d", " ", "\"", "r", "a", "t", "i", "n", "g",
    "\"", " ", "m", "u", "s", "t", " ", "b", "e", " ", "a", " ", "n",
    "u", "m", "b", "e", "r", " ", "b", "e", "t", "w", "e", "e", "n",
    " ", "0", " ", "a", "n", "d", " ", "1">>
MsgLatency ==
  <<"F", "i", "e", "l", "d", " ", "\"", "l", "a", "t", "e", "n", "c",
    "y", "_", "m", "s", "\"", " ", "m", "u", "s", "t", " ", "b", "e",
    " ", "a", " ", "n", "o", "n", "-", "n", "e", "g", "a", "t", "i",
    "v", "e", " ", "n", "u", "m", "b", "e", "r">>
MsgAgentId ==
  <<"F", "i", "e", "l", "d", " ", "\"", "a", "g", "e", "n", "t", "_",
    "i", "d", "\"", " ", "i", "s", " ", "r", "e", "q", "u", "i", "r",
    "e", "d">>
MsgDuplicate ==
  <<"d", "u", "p", "l", "i", "c", "a", "t", "e", " ", "k", "e", "y",
    " ", "v", "a", "l", "u", "e", " ", "v", "i", "o", "l", "a", "t",
    "e", "s", " ", "u", "n", "i", "q", "u", "e", " ", "c", "o", "n",
    "s", "t", "r", "a", "i", "n", "t", " ", "\"", "a", "g", "e", "n",
    "t", "_", "s", "t", "a", "t", "s", "_", "p", "k", "e", "y", "\"">>
MsgNotFound(agentId) ==
  <<"A", "g", "e", "n", "t", " ", "w", "i", "t", "h", " ", "i", "d",
    " ", "\"">>
    \o idText(agentId) \o
    <<"\"", " ", "n", "o", "t", " ", "f", "o", "u", "n", "d">>

errorMessage(result, req) ==
  CASE result = "RATE_LIMITED" -> MsgRateLimit
    [] result = "BLOCKED_SPAM" -> MsgBlocked
    [] result = "NOT_FOUND" -> MsgNotFound(req.agent_id)
    [] result = "VALIDATION_ERROR" ->
         (IF req.agent_id = "" THEN MsgAgentId
          ELSE IF req.latency_ms < 0 THEN MsgLatency ELSE MsgRating)
    [] OTHER -> MsgDuplicate

\* POST /feedback: the status and the error of the reply
statusOfMessage(message) ==
  IF includes(toLowerCase(message),
              <<"r", "a", "t", "e", " ", "l", "i", "m", "i", "t">>)
  THEN 429 ELSE 400

feedbackReply(result, req) ==
  IF result = "ok" THEN [status |-> 200, error |-> <<>>]
  ELSE [status |-> statusOfMessage(errorMessage(result, req)),
        error |-> errorMessage(result, req)]

\* FeedbackService.submitFeedback called with the consumer_id given and run
\* from start to end, the `bound`-th call at most
SubmitWithin(bound, h, consumerId, agentId, success, latencyMs, rating) ==
  LET req == [agent_id |-> agentId, consumer_id |-> consumerId,
              success |-> success, latency_ms |-> latencyMs, rating |-> rating]
      r == submitFeedback(production, agents, stats, feedbacks, fraudLog, req, now)
  IN /\ handlers[h].pc = "idle"
     /\ submits < bound
     /\ submits' = submits + 1
     /\ stats' = r.stats
     /\ feedbacks' = r.feedbacks
     /\ fraudLog' = r.fraudLog
     /\ handlers' = [handlers EXCEPT ![h] =
          [IdleHandler EXCEPT !.result = r.result, !.weight = r.weight]]
     /\ UNCHANGED <<production, now, ticks, agents, callers,
                    reviewResult, searchResult, outside>>

\* POST /feedback handled from start to end, the `bound`-th request at most:
\* the consumer_id is the caller_id of the consumer's session token
FeedbackWithin(bound, h, consumerId, agentId, success, latencyMs, rating) ==
  /\ hasValidToken(callers, consumerId, "consumer", now)
  /\ SubmitWithin(bound, h, consumerId, agentId, success, latencyMs, rating)

\* POST /feedback handled from start to end
Feedback(h, consumerId, agentId, success, latencyMs, rating) ==
  FeedbackWithin(MaxSubmits, h, consumerId, agentId, success, latencyMs, rating)

(* ------------------------------------------------------------------ *)
(* POST /search                                                         *)
(* ------------------------------------------------------------------ *)
\* the orders in which the database may return the rows of agents
RowOrders == {<<"a1", "a2">>, <<"a2", "a1">>}

\* POST /search: an agent of the response with its execution key
withKey(agent, minted) ==
  [id |-> agent.id, execution_key |-> minted.key,
   key_expires_at |-> minted.expires_at]

\* POST /search: the execution key minted for each agent of the response
agentsWithKeys(cl, consumerId, found, t) ==
  [k \in DOMAIN found |->
     withKey(found[k],
             generateExecutionKey(consumerId, found[k].id,
               IF found[k].caller_id = NoCaller THEN NoText
               ELSE getProviderSecret(cl, found[k].caller_id), t))]

\* the reply to a search, with the consumer it went to: the agents the
\* service returned and the body sent
searchReply(cl, consumerId, r, t) ==
  [consumer_id |-> consumerId, status |-> r.status, stage |-> r.stage,
   items |-> r.items,
   agentsWithKeys |-> agentsWithKeys(cl, consumerId, r.items, t)]

\* POST /search after the preHandler: the search and the keys, for the
\* caller_id of the session token
Searching(consumerId, request, rowOrder) ==
  /\ searchResult' = searchReply(callers, consumerId,
       search(production, agents, stats, feedbacks, fraudLog, request, rowOrder),
       now)
  /\ UNCHANGED <<production, now, ticks, agents, stats, feedbacks, fraudLog,
                 callers, handlers, submits, reviewResult, outside>>

\* POST /search by a consumer holding a valid session token
Search(consumerId, request, rowOrder) ==
  /\ hasValidToken(callers, consumerId, "consumer", now)
  /\ Searching(consumerId, request, rowOrder)

(* ------------------------------------------------------------------ *)
(* AgentProvider: POST /execute of the provider of an agent             *)
(* ------------------------------------------------------------------ *)
\* process.env.JWT_SECRET of the provider process that serves `configId`:
\* one provider runs both agents
providerSecret(configId) == "s1"

\* jwt.verify(token, secret): the signature is the secret's and the token
\* has not expired
jwtVerify(token, secret, t) == token.secret = secret /\ t < token.exp

\* payload[name] of a verified token: undefined when the payload has no such claim
claimOf(payload, name) ==
  IF name \in DOMAIN payload THEN payload[name] ELSE NoText

\* an /execute that would not compare payload.agent_id with its own id
executeAnyAgent(configId, token, quick, fails, t) ==
  IF quick THEN [status |-> 429, handled |-> FALSE]
  ELSE IF token = NoRow THEN [status |-> 401, handled |-> FALSE]
  ELSE IF ~jwtVerify(token, providerSecret(configId), t)
    THEN [status |-> 403, handled |-> FALSE]
  ELSE [status |-> IF fails THEN 500 ELSE 200, handled |-> TRUE]

\* AgentProvider /execute of a provider whose JWT_SECRET is `jwtSecret`:
\* `quick` when the last call of this IP was let in less than a second ago,
\* `fails` when the handler throws
executeWith(jwtSecret, configId, token, quick, fails, t) ==
  IF quick THEN [status |-> 429, handled |-> FALSE]
  ELSE IF token = NoRow THEN [status |-> 401, handled |-> FALSE]
  ELSE IF ~jwtVerify(token, jwtSecret, t)
    THEN [status |-> 403, handled |-> FALSE]
  ELSE IF claimOf(token, "agent_id") # configId
    THEN [status |-> 403, handled |-> FALSE]
  ELSE [status |-> IF fails THEN 500 ELSE 200, handled |-> TRUE]

\* /execute of the provider process that serves `configId`
execute(configId, token, quick, fails, t) ==
  executeWith(providerSecret(configId), configId, token, quick, fails, t)

\* the reply of an /execute with the request it answered
executeRecord(configId, token, t, reply) ==
  [agent_id |-> configId, token |-> token, at |-> t, status |-> reply.status,
   handled |-> reply.handled]

\* POST /execute of the provider that serves `configId`, with the Bearer
\* token `token` (NoRow without one)
Execute(configId, token, quick, fails) ==
  /\ quick => ipRateLimits[configId] = now
  /\ ipRateLimits' =
       IF quick THEN ipRateLimits ELSE [ipRateLimits EXCEPT ![configId] = now]
  /\ executeReply' = executeRecord(configId, token, now,
                                   execute(configId, token, quick, fails, now))
  /\ UNCHANGED <<production, now, ticks, agents, stats, feedbacks, fraudLog,
                 callers, handlers, submits, reviewResult, searchResult,
                 refusal, tokenHandlers, issuedTokens, registerReply,
                 registering>>

(* ------------------------------------------------------------------ *)
(* The preHandlers of POST /register, /search and /feedback             *)
(* ------------------------------------------------------------------ *)
\* the session token getOrCreateToken last signed for caller `c`:
\* jwt.sign({caller_id, type, identifier}, JWT_SECRET, {expiresIn: '24h'})
issuedToken(cl, c) ==
  LET row == callerById(cl, c)
  IN [caller_id |-> c, type |-> row.type, identifier |-> row.identifier,
      exp |-> row.token_expires_at, secret |-> JWT_SECRET]

\* AuthService.verifyToken: it throws unless jwt.verify accepts the token
verifyToken(token, t) == jwtVerify(token, JWT_SECRET, t)

\* the caller type each route serves
roleOf(route) == IF route = "/register" THEN "provider" ELSE "consumer"

\* a preHandler that would not look at the type of the caller
preHandlerAnyType(route, token, t) ==
  IF token = NoRow THEN 401
  ELSE IF ~verifyToken(token, t) THEN 403
  ELSE 0

\* preHandler: the status of the reply it sends, 0 when it sends none and
\* the route's handler runs
preHandler(route, token, t) ==
  IF token = NoRow THEN 401
  ELSE IF ~verifyToken(token, t) THEN 403
  ELSE IF claimOf(token, "type") # roleOf(route) THEN 403
  ELSE 0

\* the preHandler replied and the handler did not run
Refuse(route, token) ==
  /\ refusal' = [route |-> route, token |-> token,
                 status |-> preHandler(route, token, now)]
  /\ UNCHANGED <<production, now, ticks, agents, stats, feedbacks, fraudLog,
                 callers, handlers, submits, reviewResult, searchResult,
                 ipRateLimits, executeReply, tokenHandlers, issuedTokens,
                 registerReply, registering>>

\* POST /register with the Bearer token `token` (NoRow without one)
RegisterRoute(token, id, payload) ==
  IF preHandler("/register", token, now) = 0
  THEN Registration(claimOf(token, "caller_id"), id, payload) /\ UNCHANGED outside
  ELSE Refuse("/register", token)

\* POST /search with the Bearer token `token`
SearchRoute(token, request, rowOrder) ==
  IF preHandler("/search", token, now) = 0
  THEN Searching(claimOf(token, "caller_id"), request, rowOrder)
  ELSE Refuse("/search", token)

\* POST /feedback with the Bearer token `token`, handled from start to end
FeedbackRoute(token, agentId, success, latencyMs, rating) ==
  IF preHandler("/feedback", token, now) = 0
  THEN SubmitWithin(MaxSubmits, "h1", claimOf(token, "caller_id"), agentId, success,
                    latencyMs, rating)
  ELSE Refuse("/feedback", token)

(* ------------------------------------------------------------------ *)
(* POST /auth/token, one action per database round trip                 *)
(* ------------------------------------------------------------------ *)
TokenHandlers == {"t1", "t2"}

IdleTokenHandler ==
  [pc |-> "idle", type |-> NoText, identifier |-> NoText, secret |-> NoText,
   caller |-> NoRow, status |-> 0, error |-> NoText]

\* the route's catch: whatever getOrCreateToken throws is answered 500
tokenFailed(error) == [IdleTokenHandler EXCEPT !.status = 500, !.error = error]

\* a callers table without PRIMARY KEY (caller_id) and UNIQUE (type, identifier)
uniqueViolationNone(cl, row) == FALSE

\* schema.sql: PRIMARY KEY (caller_id) and UNIQUE (type, identifier) refuse
\* the INSERT of `row`
uniqueViolation(cl, row) ==
  \E k \in DOMAIN cl :
    \/ cl[k].caller_id = row.caller_id
    \/ cl[k].type = row.type /\ cl[k].identifier = row.identifier

\* UPDATE callers SET ... WHERE caller_id = $n, `set` giving the new row
updateCaller(cl, callerId, set(_)) ==
  [k \in DOMAIN cl |-> IF cl[k].caller_id = callerId THEN set(cl[k]) ELSE cl[k]]

TokenUnchanged ==
  UNCHANGED <<production, now, ticks, agents, stats, feedbacks, fraudLog,
              handlers, submits, reviewResult, searchResult, ipRateLimits,
              executeReply, refusal, registerReply,
              registering>>

\* the secret check and SELECT * FROM callers WHERE type = $1 AND identifier = $2
TokenSelect(h, type, identifier, secret) ==
  /\ tokenHandlers[h].pc = "idle"
  /\ \E caller \in (IF \E k \in DOMAIN callers :
                         callers[k].type = type /\ callers[k].identifier = identifier
                     THEN {callers[k] : k \in {j \in DOMAIN callers :
                             callers[j].type = type /\ callers[j].identifier = identifier}}
                     ELSE {NoRow}) :
       tokenHandlers' = [tokenHandlers EXCEPT ![h] =
         IF type = "provider" /\ secret = NoText
         THEN tokenFailed("Provider execution secret is required")
         ELSE [pc |-> IF hasClientId(identifier) THEN "conflict" ELSE "write",
               type |-> type, identifier |-> identifier, secret |-> secret,
               caller |-> caller, status |-> 0, error |-> NoText]]
  /\ UNCHANGED <<callers, issuedTokens>>
  /\ TokenUnchanged

\* the anti-spoof query and the comparison with its first row
TokenConflict(h) ==
  LET r == tokenHandlers[h]
      conflict == conflictRows(callers, r.type, r.identifier)
  IN /\ r.pc = "conflict"
     /\ \E first \in (IF conflict = {} THEN {0} ELSE conflict) :
          tokenHandlers' = [tokenHandlers EXCEPT ![h] =
            IF first # 0 /\ callers[first].identifier # r.identifier
            THEN tokenFailed("Identifier/IP mismatch for this client_id")
            ELSE [r EXCEPT !.pc = "write"]]
     /\ UNCHANGED <<callers, issuedTokens>>
     /\ TokenUnchanged

\* the UPDATE of an existing provider's secret, or the INSERT of a new caller
TokenWrite(h) ==
  LET r == tokenHandlers[h]
      encrypted == IF r.type = "provider" THEN encryptSecret(r.secret) ELSE NoText
      row == CallerRow(r.type, r.identifier, encrypted, NoTime)
      setSecret(old) == [old EXCEPT !.secret = encrypted]
  IN /\ r.pc = "write"
     /\ IF r.caller # NoRow
        THEN /\ callers' = IF r.type = "provider"
                           THEN updateCaller(callers, r.caller.caller_id, setSecret)
                           ELSE callers
             /\ tokenHandlers' = [tokenHandlers EXCEPT ![h] =
                  [r EXCEPT !.pc = "sign",
                            !.caller = IF r.type = "provider" THEN setSecret(@) ELSE @]]
        ELSE IF uniqueViolation(callers, row)
        THEN /\ callers' = callers
             /\ tokenHandlers' = [tokenHandlers EXCEPT ![h] =
                  tokenFailed("duplicate key value violates unique constraint")]
        ELSE /\ callers' = Append(callers, row)
             /\ tokenHandlers' = [tokenHandlers EXCEPT ![h] =
                  [r EXCEPT !.pc = "sign", !.caller = row]]
     /\ UNCHANGED issuedTokens
     /\ TokenUnchanged

\* jwt.sign of the caller's row, the UPDATE of token_expires_at, and the reply
TokenSign(h) ==
  LET r == tokenHandlers[h]
      setExpiry(old) == [old EXCEPT !.token_expires_at = now + SessionTtl]
  IN /\ r.pc = "sign"
     /\ issuedTokens' = issuedTokens \cup
          {[caller_id |-> r.caller.caller_id, type |-> r.caller.type,
            identifier |-> r.caller.identifier, exp |-> now + SessionTtl,
            secret |-> JWT_SECRET]}
     /\ callers' = updateCaller(callers, r.caller.caller_id, setExpiry)
     /\ tokenHandlers' = [tokenHandlers EXCEPT ![h] =
          [IdleTokenHandler EXCEPT !.status = 200]]
     /\ TokenUnchanged

\* no provider has served a call yet, no request has been refused and no
\* token request is in flight
InitOutside ==
  /\ ipRateLimits = [a \in AgentIds |-> NoTime]
  /\ executeReply = NoRow
  /\ refusal = NoRow
  /\ tokenHandlers = [h \in TokenHandlers |-> IdleTokenHandler]
  /\ issuedTokens = {}
  /\ registerReply = NoRow
  /\ registering = NoText

(* ------------------------------------------------------------------ *)
(* Clock                                                                *)
(* ------------------------------------------------------------------ *)
TickSteps == {60}

Tick(d) ==
  /\ ticks < MaxTicks
  /\ now' = now + d
  /\ ticks' = ticks + 1
  /\ UNCHANGED <<production, agents, stats, feedbacks, fraudLog, callers,
                 handlers, submits, reviewResult, searchResult, outside>>

(* ------------------------------------------------------------------ *)
(* Registered payloads and stored histories                             *)
(* ------------------------------------------------------------------ *)

P1 == generateCallerId("provider", "acme|10.0.0.1")
P2 == generateCallerId("provider", "10.0.0.2")
C1 == generateCallerId("consumer", "10.0.0.7")
\* a consumer of earlier days, whose session token has expired
Legacy == generateCallerId("consumer", "10.0.0.9")
Yesterday == 0 - 1440

\* what an agent's earlier life left in the tables: the stats row, the
\* feedback rows as groups of n equal rows, and the number of fraud rows.
\* The feedbacks are older than every window the fraud checks look at.
History(total, success, rating, latencyMs, groups, frauds) ==
  [stats |-> StatsRow(total, success, latencyMs * 100, rating),
   groups |-> groups, frauds |-> frauds]

\* n equal feedback rows sent by `consumerId` at time `at`
GroupBy(n, ok, rating, latencyMs, consumerId, at) ==
  [n |-> n, success |-> ok, rating |-> rating, latency_ms |-> latencyMs,
   consumer_id |-> consumerId, created_at |-> at]

\* n equal feedback rows of earlier days
Group(n, ok, rating, latencyMs) ==
  GroupBy(n, ok, rating, latencyMs, Legacy, Yesterday)

HistoryFeedbacks(agentId, h) ==
  LET row(g) == [agent_id |-> agentId, consumer_id |-> g.consumer_id,
                 success |-> g.success, latency_ms |-> g.latency_ms,
                 rating |-> g.rating, created_at |-> g.created_at]
      used == {k \in DOMAIN h.groups : h.groups[k].n > 0}
  IN [r \in {row(h.groups[k]) : k \in used} |->
        SumOver([k \in used |-> IF row(h.groups[k]) = r THEN h.groups[k].n ELSE 0],
                used)]

HistoryFrauds(agentId, h) ==
  IF h.frauds = 0 THEN <<>>
  ELSE [r \in {FraudRow(agentId, Legacy, "SPAM", "HIGH")} |-> h.frauds]

\* registered, no feedback yet
Fresh == History(0, 0, 0, 0, <<>>, 0)
\* 40 calls, 4 successful, rating 0.10: Threshold 1 and Threshold 2 hold
Failing ==
  History(40, 4, 10, 200, <<Group(4, TRUE, 10, 200), Group(36, FALSE, 10, 200)>>, 0)
\* 10 calls, all successful, rating 0.90, 31 s: only the latency rule holds
Slow == History(10, 10, 90, 31000, <<Group(10, TRUE, 90, 31000)>>, 0)
\* 19 calls, 7 successful: one more failure makes it 20 calls at 35 %
Borderline ==
  History(19, 7, 50, 100, <<Group(7, TRUE, 50, 100), Group(12, FALSE, 50, 100)>>, 0)
\* 15 successful calls all rated 0: avg_rating is exactly 0; the five
\* feedbacks after the tenth were logged as RATING_PATTERN (33 % fraud)
ZeroRated == History(15, 15, 0, 100, <<Group(15, TRUE, 0, 100)>>, 5)
\* 30 successful calls, the first rated 0 and the others 0.01 at weights
\* below one half: avg_rating stays 0.00, one extreme rating in 30
LowRated ==
  History(30, 30, 0, 100, <<Group(1, TRUE, 0, 100), Group(29, TRUE, 1, 100)>>, 0)
\* 207 good feedbacks and 145 fraud rows: fraud_percentage is 70.048...
FraudEdge == History(207, 207, 50, 100, <<Group(207, TRUE, 50, 100)>>, 145)

Histories == {Failing, ZeroRated}
ReviewHistories == {Failing, Slow, Borderline, ZeroRated, LowRated, FraudEdge}

InitWith(prods, hs) ==
  /\ production \in prods
  /\ now = 0
  /\ ticks = 0
  /\ \E h \in hs :
       /\ agents = [a \in {"a1"} |-> AgentRow(PWeather, P1, "active", NoText, NoTime, Yesterday)]
       /\ stats = [a \in {"a1"} |-> h.stats]
       /\ feedbacks = HistoryFeedbacks("a1", h)
       /\ fraudLog = HistoryFrauds("a1", h)
  /\ callers = <<CallerRow("provider", "acme|10.0.0.1", encryptSecret("s1"), SessionTtl),
                 CallerRow("consumer", "10.0.0.7", NoText, SessionTtl),
                 CallerRow("consumer", "10.0.0.9", NoText, 0)>>
  /\ handlers = [h \in Handlers |-> IdleHandler]
  /\ submits = 0
  /\ reviewResult = NoRow
  /\ searchResult = NoRow
  /\ InitOutside

Init == InitWith({TRUE}, Histories)

TokenRequests ==
  {<<"provider", "10.0.0.2", "s2">>}

TokenStep == \E r \in TokenRequests : Token(r[1], r[2], r[3])

\* the payload each agent id is registered with
PayloadOf(id) == IF id = "a1" THEN PWeather ELSE PStorm

RegisterStep ==
  \E p \in ProviderIds, id \in AgentIds : Register(p, id, PayloadOf(id))

FeedbackStep ==
  \E c \in ConsumerIds, a \in AgentIds, ok \in BOOLEAN :
    Feedback("h1", c, a, ok, 100, IF ok THEN 100 ELSE 0)

SubmitStep ==
  \E h \in Handlers, c \in ConsumerIds, ok \in BOOLEAN, r \in Ratings :
    FbSubmit(h, c, "a1", ok, 100, r)

PipelineStep ==
  \E h \in Handlers :
    FbLookup(h) \/ FbFraud(h) \/ FbInsert(h) \/ FbRead(h) \/ FbWrite(h)

SearchStep(requests, rowOrders) ==
  \E c \in ConsumerIds, q \in requests, o \in rowOrders : Search(c, q, o)

TickStep == \E d \in TickSteps : Tick(d)

\* the registry in production, every request handled from start to end
Next ==
  \/ TokenStep
  \/ RegisterStep
  \/ FeedbackStep
  \/ AutoReview
  \/ SearchStep({ReqFiltered}, {<<"a1", "a2">>})
  \/ TickStep

Spec == Init /\ [][Next]_vars

\* the same registry when NODE_ENV is not `production`
InitDev == InitWith({FALSE}, Histories)

SpecDev == InitDev /\ [][Next]_vars

\* the auto-review cron job over agents of every kind of history, with
\* feedback arriving between the runs
InitReview == InitWith({TRUE}, ReviewHistories)

NextReview ==
  \/ AutoReview
  \/ FeedbackStep
  \/ TickStep

SpecReview == InitReview /\ [][NextReview]_vars

\* searches of a production registry whose agents are registered, rated,
\* reviewed and banned between the searches
InitSearch == InitWith({TRUE}, {Failing})

NextSearch ==
  \/ RegisterStep
  \/ FeedbackStep
  \/ AutoReview
  \/ SearchStep(SearchRequests, RowOrders)

SpecSearch == InitSearch /\ [][NextSearch]_vars

\* feedback requests served concurrently by two handlers, each database
\* round trip a step of its own
InitFeedback == InitWith({TRUE}, {Fresh})

NextFeedback ==
  \/ SubmitStep
  \/ PipelineStep

SpecFeedback == InitFeedback /\ [][NextFeedback]_vars

\* feedbacks served one after the other, in development and in production,
\* for an agent registered with an empty stats row
InitStats == InitWith(BOOLEAN, {Fresh})

RatedLatencies == {100, 101}
GivenRatings == {0, 1, 100}

RateStep ==
  \E c \in ConsumerIds, ok \in BOOLEAN, l \in RatedLatencies, r \in GivenRatings :
    FeedbackWithin(MaxRatings, "h1", c, "a1", ok, l, r)

NextStats ==
  \/ RateStep
  \/ TickStep

SpecStats == InitStats /\ [][NextStats]_vars

\* n feedbacks rated 0 that consumer C1 sent within the last minute
Recent(n) == History(n, n, 0, 100, <<GroupBy(n, TRUE, 0, 100, C1, 0)>>, 0)

\* two registered agents with the histories h1 and h2
InitRows(prod, h1, h2) ==
  /\ production = prod
  /\ now = 0
  /\ ticks = 0
  /\ agents = [a \in {"a1", "a2"} |->
       AgentRow(PayloadOf(a), P1, "active", NoText, NoTime, Yesterday)]
  /\ stats = [a \in {"a1", "a2"} |-> IF a = "a1" THEN h1.stats ELSE h2.stats]
  /\ feedbacks = HistoryFeedbacks("a1", h1) @@ HistoryFeedbacks("a2", h2)
  /\ fraudLog = <<>>
  /\ callers = <<CallerRow("provider", "acme|10.0.0.1", encryptSecret("s1"), SessionTtl),
                 CallerRow("consumer", "10.0.0.7", NoText, SessionTtl)>>
  /\ handlers = [h \in Handlers |-> IdleHandler]
  /\ submits = 0
  /\ reviewResult = NoRow
  /\ searchResult = NoRow
  /\ InitOutside

\* a consumer close to a limit: in development after 59 feedbacks in the
\* last minute, in production after 10 feedbacks for a1 in the last hour
InitLimit ==
  \/ InitRows(FALSE, Recent(30), Recent(29))
  \/ InitRows(TRUE, Recent(10), Recent(0))

LimitStep ==
  \E c \in ConsumerIds, a \in {"a1", "a2", UnknownId} :
    FeedbackWithin(MaxRatings, "h1", c, a, TRUE, 100, 0)

NextLimit ==
  \/ LimitStep
  \/ TickStep

SpecLimit == InitLimit /\ [][NextLimit]_vars

\* submitFeedback called for an agent by its owner and by a consumer, in
\* development and in production
OwnerStep ==
  \E c \in {P1, C1}, r \in GivenRatings :
    SubmitWithin(MaxRatings, "h1", c, "a1", TRUE, 100, r)

NextOwner ==
  \/ OwnerStep
  \/ TickStep

SpecOwner == InitStats /\ [][NextOwner]_vars

\* 20 failed calls rated 0.20 that took 2 s each: auto-review quarantines
\* the agent for its success rate, and no Threshold 2 rule holds
Unreliable == History(20, 0, 20, 2000, <<Group(20, FALSE, 20, 2000)>>, 0)

\* searches of a production registry with a Global agent that auto-review
\* quarantines and an agent in Sao Paulo, rated between the searches
InitRank == InitRows(TRUE, Unreliable, Fresh)

NextRank ==
  \/ AutoReview
  \/ FeedbackStep
  \/ SearchStep(RankRequests, RowOrders)
  \/ TickStep

SpecRank == InitRank /\ [][NextRank]_vars

\* 10 successful calls rated 0.90 that took 100 ms each
Reliable == History(10, 10, 90, 100, <<Group(10, TRUE, 90, 100)>>, 0)

\* a registry of twelve agents
CrowdIds ==
  <<"a1", "a2", "a3", "a4", "a5", "a6", "a7", "a8", "a9", "a10", "a11", "a12">>
CrowdOrders == {CrowdIds, [k \in DOMAIN CrowdIds |-> CrowdIds[Len(CrowdIds) + 1 - k]]}

\* the history of the k-th agent of the registry
CrowdHistory(k) ==
  IF k % 3 = 1 THEN Fresh ELSE IF k % 3 = 2 THEN Reliable ELSE Slow

\* the feedback rows the histories of the twelve agents left
CrowdFeedbacks ==
  LET rowsOf(k) == HistoryFeedbacks(CrowdIds[k], CrowdHistory(k))
      count(r, k) == IF r \in DOMAIN rowsOf(k) THEN rowsOf(k)[r] ELSE 0
  IN [r \in UNION {DOMAIN rowsOf(k) : k \in DOMAIN CrowdIds} |->
        SumOver([k \in DOMAIN CrowdIds |-> count(r, k)], DOMAIN CrowdIds)]

InitCrowd ==
  /\ production = TRUE
  /\ now = 0
  /\ ticks = 0
  /\ agents = [a \in Range(CrowdIds) |->
       AgentRow(IF a \in {"a1", "a2"} THEN PayloadOf(a) ELSE PWeather, P1,
                "active", NoText, NoTime, Yesterday)]
  /\ stats = [a \in Range(CrowdIds) |->
       CrowdHistory(CHOOSE k \in DOMAIN CrowdIds : CrowdIds[k] = a).stats]
  /\ feedbacks = CrowdFeedbacks
  /\ fraudLog = <<>>
  /\ callers = <<CallerRow("provider", "acme|10.0.0.1", encryptSecret("s1"), SessionTtl),
                 CallerRow("consumer", "10.0.0.7", NoText, SessionTtl)>>
  /\ handlers = [h \in Handlers |-> IdleHandler]
  /\ submits = 0
  /\ reviewResult = NoRow
  /\ searchResult = NoRow
  /\ InitOutside

\* searches with every kind of limit, the agents rated between them
NextCrowd ==
  \/ SearchStep(LimitRequests, CrowdOrders)
  \/ FeedbackStep
  \/ TickStep

SpecCrowd == InitCrowd /\ [][NextCrowd]_vars

\* an agent registered without feedback, searched for by consumers while
\* agents are registered and the first feedback arrives
NextScenario ==
  \/ TokenStep
  \/ RegisterStep
  \/ SearchStep({ReqFiltered}, RowOrders)
  \/ FeedbackStep
  \/ TickStep

SpecScenario == InitStats /\ [][NextScenario]_vars

\* the callers table when a1 belongs to a provider whose secret is stored
\* encrypted and a2 to a provider of earlier days, whose row holds a secret
\* that does not decrypt and whose session token has expired
LegacySecret == "s0"
InitKeys ==
  /\ production = TRUE
  /\ now = 0
  /\ ticks = 0
  /\ agents = [a \in AgentIds |->
       AgentRow(PayloadOf(a), IF a = "a1" THEN P1 ELSE P2, "active", NoText,
                NoTime, Yesterday)]
  /\ stats = [a \in AgentIds |-> Fresh.stats]
  /\ feedbacks = <<>>
  /\ fraudLog = <<>>
  /\ callers = <<CallerRow("provider", "acme|10.0.0.1", encryptSecret("s1"), SessionTtl),
                 CallerRow("provider", "10.0.0.2", LegacySecret, 0),
                 CallerRow("consumer", "10.0.0.7", NoText, SessionTtl)>>
  /\ handlers = [h \in Handlers |-> IdleHandler]
  /\ submits = 0
  /\ reviewResult = NoRow
  /\ searchResult = NoRow
  /\ InitOutside

\* token requests of the two providers, the first one with its secret and
\* with a new one
KeyTokenRequests ==
  {<<"provider", "acme|10.0.0.1", "s1">>, <<"provider", "acme|10.0.0.1", "s3">>,
   <<"provider", "10.0.0.2", "s2">>}

KeyTokenStep == \E r \in KeyTokenRequests : Token(r[1], r[2], r[3])

\* searches while providers request tokens, rotate their secrets and
\* register each other's agents
NextKeys ==
  \/ KeyTokenStep
  \/ RegisterStep
  \/ SearchStep({ReqFiltered}, {<<"a1", "a2">>})
  \/ TickStep

SpecKeys == InitKeys /\ [][NextKeys]_vars

\* the tokens a client may send to a provider: none, the keys of the last
\* search, and the same keys signed with a secret that is not the provider's
OfferedTokens ==
  LET minted == IF searchResult = NoRow THEN {}
                ELSE {searchResult.agentsWithKeys[k].execution_key :
                        k \in DOMAIN searchResult.agentsWithKeys}
  IN {NoRow} \cup minted \cup {[key EXCEPT !.secret = "s2"] : key \in minted}

ExecuteStep ==
  \E a \in AgentIds, token \in OfferedTokens, quick \in BOOLEAN, fails \in BOOLEAN :
    Execute(a, token, quick, fails)

\* consumers search and call the providers of the two agents of one owner
\* with the keys they got, at once and an hour later
NextExecute ==
  \/ SearchStep({ReqFiltered}, {<<"a1", "a2">>})
  \/ ExecuteStep
  \/ TickStep

SpecExecute == InitRows(TRUE, Fresh, Fresh) /\ [][NextExecute]_vars

\* the Bearer tokens a client may send to the registry: none, the session
\* token last issued to each caller (the one of the consumer of earlier
\* days has expired), and the provider's token signed with another secret
SessionTokens ==
  LET issued == {issuedToken(callers, c) : c \in callerIds(callers)}
  IN {NoRow} \cup issued \cup {[issuedToken(callers, P1) EXCEPT !.secret = "s2"]}

RegisterRouteStep ==
  \E token \in SessionTokens, id \in AgentIds : RegisterRoute(token, id, PayloadOf(id))

SearchRouteStep ==
  \E token \in SessionTokens : SearchRoute(token, ReqFiltered, <<"a1", "a2">>)

FeedbackRouteStep ==
  \E token \in SessionTokens, ok \in BOOLEAN :
    FeedbackRoute(token, "a1", ok, 100, IF ok THEN 100 ELSE 0)

\* requests to the three routes with every kind of Bearer token
NextRoutes ==
  \/ RegisterRouteStep
  \/ SearchRouteStep
  \/ FeedbackRouteStep
  \/ TickStep

SpecRoutes == InitWith({TRUE}, {Fresh}) /\ [][NextRoutes]_vars

\* a registry that has seen no caller and no agent yet
InitEmpty ==
  /\ production = TRUE
  /\ now = 0
  /\ ticks = 0
  /\ agents = <<>>
  /\ stats = <<>>
  /\ feedbacks = <<>>
  /\ fraudLog = <<>>
  /\ callers = <<>>
  /\ handlers = [h \in Handlers |-> IdleHandler]
  /\ submits = 0
  /\ reviewResult = NoRow
  /\ searchResult = NoRow
  /\ InitOutside

\* token requests: a provider with a client id from two addresses, a
\* consumer, and a provider that sends no secret
DeskRequests ==
  {<<"provider", "acme|10.0.0.1", "s1">>, <<"provider", "acme|10.0.0.3", "s1">>,
   <<"consumer", "10.0.0.7", NoText>>, <<"provider", "10.0.0.2", NoText>>}

TokenSelectStep ==
  \E h \in TokenHandlers, r \in DeskRequests : TokenSelect(h, r[1], r[2], r[3])

TokenConflictStep == \E h \in TokenHandlers : TokenConflict(h)

TokenWriteStep == \E h \in TokenHandlers : TokenWrite(h)

TokenSignStep == \E h \in TokenHandlers : TokenSign(h)

\* two token requests at a time, interleaved at every database round trip
NextDesk ==
  \/ TokenSelectStep
  \/ TokenConflictStep
  \/ TokenWriteStep
  \/ TokenSignStep
  \/ TickStep

SpecDesk == InitEmpty /\ [][NextDesk]_vars

\* token requests in turn, of providers that send a client id, acme or
\* a\b, from two addresses each
SpoofRequests ==
  {<<"provider", identifier, "s1">> :
     identifier \in {"acme|10.0.0.1", "acme|10.0.0.3",
                     "a\\b|10.0.0.1", "a\\b|10.0.0.3"}}

SpoofTokenStep == \E r \in SpoofRequests : Token(r[1], r[2], r[3])

NextSpoof ==
  \/ SpoofTokenStep
  \/ TickStep

SpecSpoof == InitEmpty /\ [][NextSpoof]_vars

\* a1 of provider P1 is in quarantine after twenty failed calls; a2 is not
\* registered; two providers and a consumer hold session tokens
InitOwned ==
  /\ production = TRUE
  /\ now = 0
  /\ ticks = 0
  /\ agents = [a \in {"a1"} |->
       AgentRow(PWeather, P1, "quarantine", "Fraud > 50%", Yesterday, Yesterday)]
  /\ stats = [a \in {"a1"} |-> Unreliable.stats]
  /\ feedbacks = HistoryFeedbacks("a1", Unreliable)
  /\ fraudLog = <<>>
  /\ callers = <<CallerRow("provider", "acme|10.0.0.1", encryptSecret("s1"), SessionTtl),
                 CallerRow("provider", "10.0.0.2", encryptSecret("s2"), SessionTtl),
                 CallerRow("consumer", "10.0.0.7", NoText, SessionTtl)>>
  /\ handlers = [h \in Handlers |-> IdleHandler]
  /\ submits = 0
  /\ reviewResult = NoRow
  /\ searchResult = NoRow
  /\ InitOutside

Payloads == {PWeather, PStorm}

\* either provider registers either agent id with either payload
RegisterAnyStep ==
  \E p \in ProviderIds, id \in AgentIds, payload \in Payloads : Register(p, id, payload)

\* the consumer reports a call of a1
OwnedFeedbackStep ==
  \E ok \in BOOLEAN : Feedback("h1", C1, "a1", ok, 100, IF ok THEN 100 ELSE 0)

NextOwned ==
  \/ RegisterAnyStep
  \/ OwnedFeedbackStep
  \/ TickStep

SpecOwned == InitOwned /\ [][NextOwned]_vars

\* the endpoints providers try to register
Endpoints ==
  {Https \o WxHost,
   Http \o WxHost,
   Http \o Localhost \o <<":", "3", "0", "0", "0">>,
   Http \o Loopback \o <<":", "3", "0", "0", "0">>,
   Http \o Localhost,
   Http \o Localhost \o <<":", "a", "b", "c">>,
   Http \o Localhost \o <<":", "7", "0", "0", "0", "0">>,
   Https,
   Https \o <<"w", "x", " ", "e", "x", "a", "m", "p", "l", "e", ".", "c", "o", "m">>,
   <<"H", "T", "T", "P", "S", ":", "/", "/">> \o WxHost,
   <<"f", "t", "p", ":", "/", "/">> \o WxHost,
   WxHost,
   Localhost \o <<":", "3", "0", "0", "0">>}

RegisterEndpointStep ==
  \E id \in AgentIds, endpoint \in Endpoints :
    RegisterReplying(P1, id, [PayloadOf(id) EXCEPT !.endpoint = endpoint])

NextEndpoint ==
  \/ RegisterEndpointStep
  \/ TickStep

\* production or development, the providers holding tokens
InitEndpoint ==
  /\ production \in BOOLEAN
  /\ now = 0
  /\ ticks = 0
  /\ agents = <<>>
  /\ stats = <<>>
  /\ feedbacks = <<>>
  /\ fraudLog = <<>>
  /\ callers = <<CallerRow("provider", "acme|10.0.0.1", encryptSecret("s1"), SessionTtl),
                 CallerRow("provider", "10.0.0.2", encryptSecret("s2"), SessionTtl)>>
  /\ handlers = [h \in Handlers |-> IdleHandler]
  /\ submits = 0
  /\ reviewResult = NoRow
  /\ searchResult = NoRow
  /\ InitOutside

SpecEndpoint == InitEndpoint /\ [][NextEndpoint]_vars

\* the addresses of twenty-one consumers, none of them a provider
PraiseIdentifiers ==
  <<"10.0.1.1", "10.0.1.2", "10.0.1.3", "10.0.1.4", "10.0.1.5",
    "10.0.1.6", "10.0.1.7", "10.0.1.8", "10.0.1.9", "10.0.1.10",
    "10.0.1.11", "10.0.1.12", "10.0.1.13", "10.0.1.14", "10.0.1.15",
    "10.0.1.16", "10.0.1.17", "10.0.1.18", "10.0.1.19", "10.0.1.20",
    "10.0.1.21">>

PraiseConsumers ==
  [k \in DOMAIN PraiseIdentifiers |-> generateCallerId("consumer", PraiseIdentifiers[k])]

\* a1 after its first calls: as many as the rating-pattern check asks for,
\* each reported once, by a consumer of its own, as a success in 100 ms
\* rated 1.0
Praised ==
  History(PatternMinTotal, PatternMinTotal, 100, 100,
          [k \in 1..PatternMinTotal |->
             GroupBy(1, TRUE, 100, 100, PraiseConsumers[k], Yesterday)], 0)

InitPraise ==
  /\ production = TRUE
  /\ now = 0
  /\ ticks = 0
  /\ agents = [a \in {"a1"} |-> AgentRow(PWeather, P1, "active", NoText, NoTime, Yesterday)]
  /\ stats = [a \in {"a1"} |-> Praised.stats]
  /\ feedbacks = HistoryFeedbacks("a1", Praised)
  /\ fraudLog = <<>>
  /\ callers =
       <<CallerRow("provider", "acme|10.0.0.1", encryptSecret("s1"), SessionTtl)>>
       \o [k \in DOMAIN PraiseIdentifiers |->
             CallerRow("consumer", PraiseIdentifiers[k], NoText, SessionTtl)]
  /\ handlers = [h \in Handlers |-> IdleHandler]
  /\ submits = 0
  /\ reviewResult = NoRow
  /\ searchResult = NoRow
  /\ InitOutside

\* a consumer that has not reported a call of a1 yet reports one: a
\* success in 100 ms, rated 1.0
PraiseStep ==
  \E k \in DOMAIN PraiseConsumers :
    /\ countByConsumerAndAgent(feedbacks, PraiseConsumers[k], "a1") = 0
    /\ SubmitWithin(Len(PraiseConsumers), "h1", PraiseConsumers[k], "a1", TRUE, 100, 100)

NextPraise ==
  \/ PraiseStep
  \/ AutoReview

SpecPraise == InitPraise /\ [][NextPraise]_vars

\* consumer C1, who owns no agent, reports calls of a1 again and again
SpamStep ==
  \E ok \in BOOLEAN, rating \in {0, 50} :
    SubmitWithin(MaxSpam, "h1", C1, "a1", ok, 100, rating)

NextSpam ==
  \/ SpamStep
  \/ AutoReview
  \/ TickStep

\* a1 has the ten feedbacks C1 sent this hour and no other
SpecSpam == InitRows(TRUE, Recent(10), Fresh) /\ [][NextSpam]_vars

(* ------------------------------------------------------------------ *)
(* The quarantine rules as the specification words them                 *)
(* ------------------------------------------------------------------ *)
\* fraud_percentage(agent): min(100, fraud rows / feedbacks * 100), 0 in
\* development and when there is no feedback; kept as an exact fraction
FraudPercentage(a) ==
  LET total == countFeedbacksOfAgent(feedbacks, a)
      frauds == getTotalFraudCount(fraudLog, a)
  IN IF ~production \/ total = 0 THEN Pct(0, 0) ELSE Pct(Min(frauds, total), total)

SelfRatingPercentage(a) ==
  Pct(countByConsumerAndAgent(feedbacks, agents[a].caller_id, a),
      countFeedbacksOfAgent(feedbacks, a))

\* success_rate < pct / 100 and success_rate >= pct / 100
SuccessRateLt(a, pct) ==
  IF stats[a].calls_total = 0 THEN TRUE
  ELSE 100 * stats[a].calls_success < pct * stats[a].calls_total
SuccessRateGe(a, pct) ==
  stats[a].calls_total > 0 /\ 100 * stats[a].calls_success >= pct * stats[a].calls_total

Threshold1(a) ==
  /\ a \in DOMAIN stats
  /\ \/ stats[a].calls_total >= 20 /\ SuccessRateLt(a, 40)
     \/ stats[a].calls_total >= 15 /\ stats[a].avg_rating < 30
     \/ stats[a].calls_total >= 10 /\ stats[a].avg_latency_ms > 30000 * 100
     \/ PctGt(FraudPercentage(a), 50)

Threshold2(a) ==
  /\ a \in DOMAIN stats
  /\ \/ stats[a].calls_total >= 40 /\ SuccessRateLt(a, 20)
     \/ stats[a].calls_total >= 30 /\ stats[a].avg_rating < 15
     \/ PctGt(FraudPercentage(a), 70)
     \/ PctGt(SelfRatingPercentage(a), 80)

Reactivable(a) ==
  /\ a \in DOMAIN stats
  /\ SuccessRateGe(a, 45)
  /\ stats[a].avg_rating >= 35
  /\ PctLt(FraudPercentage(a), 40)

\* what an auto-review run started in this state leaves and returns
RunResult == autoReviewAgents(production, agents, stats, feedbacks, fraudLog, now)
\* and what a second run, right after that one, leaves and returns
SecondRunResult ==
  autoReviewAgents(production, RunResult.agents, stats, feedbacks, fraudLog, now)

(* ------------------------------------------------------------------ *)
(* Auto-review                                                          *)
(* ------------------------------------------------------------------ *)
LegalMoves ==
  {<<"active", "quarantine">>, <<"quarantine", "banned">>, <<"quarantine", "active">>}

\* C3: a run of auto-review changes an agent's status only along
\* active -> quarantine, quarantine -> banned or quarantine -> active, and in
\* production an active agent that meets a Threshold 2 condition is in
\* quarantine (not banned, not still active) after the run.
C3_LegalTransitions ==
  \A a \in DOMAIN agents :
    LET from == agents[a].status
        to == RunResult.agents[a].status
    IN /\ to # from => <<from, to>> \in LegalMoves
       /\ production /\ from = "active" /\ Threshold2(a) => to = "quarantine"

\* C4: in production, after a run every agent that was active at its start
\* and meets a Threshold 1 condition is in quarantine with a reason.
C4_QuarantineOnThreshold1 ==
  production =>
    \A a \in DOMAIN agents :
      agents[a].status = "active" /\ Threshold1(a) =>
        /\ RunResult.agents[a].status = "quarantine"
        /\ RunResult.agents[a].quarantine_reason # NoText

\* C5: in production, a run moves a quarantined agent to banned exactly
\* when a Threshold 2 condition holds (also when it could be reactivated).
C5_BanIffThreshold2 ==
  production =>
    \A a \in DOMAIN agents :
      agents[a].status = "quarantine" =>
        (RunResult.agents[a].status = "banned" <=> Threshold2(a))

\* C6: a run returns a quarantined agent to active only if success_rate >=
\* 0.45, avg_rating >= 0.35 and fraud_percentage < 40 all hold and no
\* Threshold 2 condition does, and it clears quarantine_reason.
C6_ReactivationOnlyWhenHealthy ==
  \A a \in DOMAIN agents :
    agents[a].status = "quarantine" /\ RunResult.agents[a].status = "active" =>
      /\ Reactivable(a)
      /\ ~Threshold2(a)
      /\ RunResult.agents[a].quarantine_reason = NoText

\* a run has reactivated a1, and a run has left a1 in quarantine although
\* two of the three conditions hold
C6_Witness ==
  /\ reviewResult # NoRow
  /\ \/ /\ agents["a1"].status = "active"
        /\ reviewResult.reactivated = 1
        /\ agents["a1"].quarantine_reason = NoText
     \/ /\ agents["a1"].status = "quarantine"
        /\ reviewResult = ZeroCounts
        /\ SuccessRateGe("a1", 45) /\ stats["a1"].avg_rating >= 35
        /\ ~PctLt(FraudPercentage("a1"), 40)

C9_SuccessWithinTotal ==
  \A a \in DOMAIN stats :
    /\ 0 <= stats[a].calls_success
    /\ stats[a].calls_success <= stats[a].calls_total

\* two successful feedbacks of a1 were stored by overlapping handlers, both
\* answered ok, and the second write replaced the first: one call counted
C9_Witness ==
  /\ \A h \in Handlers : handlers[h].pc = "idle" /\ handlers[h].result = "ok"
  /\ countFeedbacksOfAgent(feedbacks, "a1") = 2
  /\ stats["a1"].calls_total = 1
  /\ stats["a1"].calls_success = 1

\* C10: calls_total and calls_success never decrease: no step, of any
\* interleaving of concurrent feedback submissions, leaves a counter of an
\* agent smaller than it was.
C10_MonotonicCounters ==
  [][\A a \in DOMAIN stats :
       /\ a \in DOMAIN stats'
       /\ stats'[a].calls_total >= stats[a].calls_total
       /\ stats'[a].calls_success >= stats[a].calls_success]_vars

(* ------------------------------------------------------------------ *)
(* Search                                                               *)
(* ------------------------------------------------------------------ *)
\* the response to `request` in this state, the rows read in `rowOrder`
searchNow(request, rowOrder) ==
  search(production, agents, stats, feedbacks, fraudLog, request, rowOrder)

\* C1: whatever the request and whichever stage produced the candidates
\* (filtered query, intent-only fallback, fuzzy lookup, all agents), no
\* agent that is banned when the search runs is in the list returned.
C1_NoBannedInSearch ==
  \A request \in SearchRequests, rowOrder \in RowOrders :
    LET items == searchNow(request, rowOrder).items
    IN \A k \in DOMAIN items : agents[items[k].id].status # "banned"

\* a1 is banned and a2 is not; each of the four stages has a1 among its
\* candidates and answers with a2; the last search ran in this state
C1_Witness ==
  /\ agents["a1"].status = "banned"
  /\ "a2" \in DOMAIN agents
  /\ \A request \in SearchRequests :
       \E rowOrder \in RowOrders :
         LET r == searchNow(request, rowOrder)
         IN /\ "a1" \in Range(r.candidates)
            /\ r.items # <<>>
  /\ {searchNow(request, <<"a1", "a2">>).stage : request \in SearchRequests}
       = {"filtered", "intent", "fuzzy", "all"}
  /\ searchResult # NoRow
  /\ searchResult.items # <<>>
  /\ \E request \in SearchRequests, rowOrder \in RowOrders :
       searchResult.items = searchNow(request, rowOrder).items

(* ------------------------------------------------------------------ *)
(* Ban                                                                  *)
(* ------------------------------------------------------------------ *)
\* C2: ban is terminal: no step (token, register or re-registration by any
\* provider, search, feedback, auto-review) changes the status of an agent
\* that is banned.
C2_BanIsTerminal ==
  [][\A a \in DOMAIN agents :
       agents[a].status = "banned" =>
         a \in DOMAIN agents' /\ agents'[a].status = "banned"]_vars

\* a1 is banned and has since been re-registered by another provider, rated
\* by a consumer, searched for and reviewed again
C2_Witness ==
  /\ agents["a1"].status = "banned"
  /\ agents["a1"].caller_id = P2
  /\ agents["a1"].updated_at > agents["a1"].quarantine_at
  /\ \E r \in DOMAIN feedbacks :
       r.agent_id = "a1" /\ r.created_at > agents["a1"].quarantine_at
  /\ reviewResult = ZeroCounts
  /\ searchResult # NoRow /\ searchResult.items = <<>>

(* ------------------------------------------------------------------ *)
(* Development mode                                                     *)
(* ------------------------------------------------------------------ *)
\* the fraud checks and the quarantine operations do nothing in this state
DevelopmentInert ==
  /\ \A a \in DOMAIN agents :
       /\ calculateFraudPercentage(production, feedbacks, fraudLog, a).n = 0
       /\ checkAgentHealth(production, agents, stats, feedbacks, fraudLog, a)
            .fraud_percentage = 0
       /\ quarantineAgent(production, agents, a, "manual", now) = agents
       /\ banAgent(production, agents, a, "manual", now) = agents
       /\ reactivateAgent(production, agents, a, now) = agents
  /\ \A c \in ConsumerIds \cup ProviderIds, a \in AgentIds :
       LET f == analyzeFeedback(production, agents, feedbacks, fraudLog, c, a, now)
       IN f.totalWeight = WeightOne /\ ~f.shouldBlock /\ f.log = fraudLog
  /\ RunResult = [agents |-> agents, counts |-> ZeroCounts]

\* C8: when NODE_ENV is not production, in every reachable state the fraud
\* percentage of every agent is 0, fraud analysis yields weight 1 and no
\* block, auto-review returns zeros and quarantine / ban / reactivate do
\* nothing; and no step creates a fraud row or changes an agent's status.
C8_DevelopmentInert ==
  /\ [](~production => DevelopmentInert)
  /\ [][~production =>
          /\ fraudLog' = fraudLog
          /\ \A a \in DOMAIN agents :
               a \in DOMAIN agents' /\ agents'[a].status = agents[a].status]_vars

\* in development a1, with fraud rows from earlier days and a rating that
\* meets Threshold 1, was rated once more and reviewed, and is still active
C8_Witness ==
  /\ ~production
  /\ getTotalFraudCount(fraudLog, "a1") > 0
  /\ stats["a1"].calls_total > T1RatingCalls /\ stats["a1"].avg_rating < T1Rating
  /\ handlers["h1"].result = "ok"
  /\ reviewResult = ZeroCounts
  /\ agents["a1"].status = "active"

(* ------------------------------------------------------------------ *)
(* Statistics of the feedbacks                                          *)
(* ------------------------------------------------------------------ *)
\* the feedback rows of agent a, and their number
FeedbacksOf(a) == {r \in DOMAIN feedbacks : r.agent_id = a}
FeedbackCount(a) == SumOver(feedbacks, FeedbacksOf(a))

\* every feedback of agent a was applied with the combined weight 1.0: the
\* registry is in development, or no consumer rated a twice and none owns a
UnitWeights(a) ==
  \/ ~production
  \/ \A r \in FeedbacksOf(a) :
       /\ countByConsumerAndAgent(feedbacks, r.consumer_id, a) = 1
       /\ r.consumer_id # agents[a].caller_id

\* C11: after feedbacks served one after the other for an agent registered
\* with an empty stats row, calls_total is the number of its feedback rows,
\* calls_success the number of the successful ones, avg_latency_ms the mean
\* of their latency_ms and avg_rating the mean of rating x weight (here for
\* the feedbacks of weight 1.0), each mean at the precision of its column.
C11_StatsAreMeans ==
  \A a \in DOMAIN stats :
    LET rows == FeedbacksOf(a)
        n == FeedbackCount(a)
        successes == SumOver(feedbacks, {r \in rows : r.success})
        latencySum == SumOver([r \in rows |-> feedbacks[r] * r.latency_ms], rows)
        ratingSum == SumOver([r \in rows |-> feedbacks[r] * r.rating], rows)
    IN /\ stats[a].calls_total = n
       /\ stats[a].calls_success = successes
       /\ n > 0 => stats[a].avg_latency_ms = RoundDiv(100 * latencySum, n)
       /\ (n > 0 /\ UnitWeights(a)) => stats[a].avg_rating = RoundDiv(ratingSum, n)

\* the scenario of C11: three feedbacks {success: true, latency_ms: 100,
\* rating: 1.0} of weight 1.0 leave calls_total = 3, calls_success = 3,
\* avg_rating = 1.0 and avg_latency_ms = 100
C11_ThreeFeedbacks ==
  (/\ "a1" \in DOMAIN stats
   /\ FeedbackCount("a1") = 3
   /\ UnitWeights("a1")
   /\ \A r \in FeedbacksOf("a1") : r.success /\ r.latency_ms = 100 /\ r.rating = 100)
  => stats["a1"] = StatsRow(3, 3, 100 * 100, 100)

\* the combined weights analyzeFeedback can return: self weight x decreasing
\* weight, in hundred-thousandths
CombinedWeights ==
  {self * decreasing : self \in {SelfWeight, NoSelfWeight},
                       decreasing \in {MinWeight, WeightTable(1), WeightTable(2),
                                       FullWeight}}

\* C12: for every agent with calls_total > 0, 0 <= avg_rating <= 1 after any
\* sequence of accepted feedbacks, and whatever feedback comes next, applying
\* a weight below 1.0 to it leaves a mean between 0 and the mean the same
\* feedback gives at weight 1.0.
C12_RatingWithinUnit ==
  \A a \in DOMAIN stats :
    /\ stats[a].calls_total > 0 =>
         stats[a].avg_rating >= 0 /\ stats[a].avg_rating <= 100
    /\ \A rating \in GivenRatings, weight \in CombinedWeights :
         LET weighted == updatedStats(stats[a], TRUE, 100, rating, weight)
             plain == updatedStats(stats[a], TRUE, 100, rating, WeightOne)
         IN weighted.avg_rating >= 0 /\ weighted.avg_rating <= plain.avg_rating

\* three feedbacks were accepted in production, the last one at a weight
\* below 1.0, and the mean is strictly between 0 and 1
C12_Witness ==
  /\ production
  /\ stats["a1"].calls_total = 3
  /\ stats["a1"].avg_rating > 0 /\ stats["a1"].avg_rating < 100
  /\ handlers["h1"].result = "ok"
  /\ handlers["h1"].weight > 0 /\ handlers["h1"].weight < WeightOne

(* ------------------------------------------------------------------ *)
(* Limits on feedback                                                   *)
(* ------------------------------------------------------------------ *)
\* the feedback rows consumer c created in the last minute, all agents
RecentRows(c) ==
  SumOver(feedbacks, {r \in DOMAIN feedbacks :
                        r.consumer_id = c /\ r.created_at > now - 1})

\* the valid feedback requests a consumer with a session token can send now
FeedbackRequests(targets) ==
  {[agent_id |-> a, consumer_id |-> c, success |-> TRUE, latency_ms |-> 100,
    rating |-> 0] :
     a \in targets,
     c \in {x \in ConsumerIds : hasValidToken(callers, x, "consumer", now)}}

\* the reply POST /feedback gives to `req` in this state
feedbackNow(req) ==
  feedbackReply(submitFeedback(production, agents, stats, feedbacks, fraudLog,
                               req, now).result, req)

\* C13: a valid feedback submission is answered with HTTP 429 exactly when
\* its consumer already has at least 60 feedback rows, across all agents,
\* created in the preceding minute.
C13_RateLimited ==
  \A req \in FeedbackRequests({"a1", "a2", UnknownId}) :
    feedbackNow(req).status = 429
      <=> RecentRows(req.consumer_id) >= RateLimitPerMinute

\* the same for the submissions that name a registered agent
C13_RateLimitedRegistered ==
  \A req \in FeedbackRequests({"a1", "a2"}) :
    feedbackNow(req).status = 429
      <=> RecentRows(req.consumer_id) >= RateLimitPerMinute

\* the feedback rows consumer c created for agent a in the last hour
HourlyRows(c, a) ==
  SumOver(feedbacks, {r \in DOMAIN feedbacks :
                        /\ r.consumer_id = c /\ r.agent_id = a
                        /\ r.created_at > now - 60})

\* C14: in production, of the valid feedbacks a consumer sends one after the
\* other for one agent within an hour, the first 10 are accepted and the
\* 11th fails with BLOCKED_SPAM and leaves the agent's stats as they were.
C14_EleventhBlocked ==
  production =>
    \A req \in FeedbackRequests({"a1", "a2"}) :
      LET sent == HourlyRows(req.consumer_id, req.agent_id)
          out == submitFeedback(production, agents, stats, feedbacks, fraudLog,
                                req, now)
      IN RecentRows(req.consumer_id) < RateLimitPerMinute =>
           /\ sent < 10 => out.result = "ok"
           /\ sent = 10 => out.result = "BLOCKED_SPAM" /\ out.stats = stats

\* what the code does: the 11th is accepted and the 12th is the first blocked
C14_TwelfthBlocked ==
  production =>
    \A req \in FeedbackRequests({"a1", "a2"}) :
      LET sent == HourlyRows(req.consumer_id, req.agent_id)
          out == submitFeedback(production, agents, stats, feedbacks, fraudLog,
                                req, now)
      IN RecentRows(req.consumer_id) < RateLimitPerMinute =>
           /\ sent < 11 => out.result = "ok"
           /\ sent = 11 => out.result = "BLOCKED_SPAM" /\ out.stats = stats

(* ------------------------------------------------------------------ *)
(* Self-rating                                                          *)
(* ------------------------------------------------------------------ *)
\* the number of rows equal to `row` in a table
RowCount(table, row) == IF row \in DOMAIN table THEN table[row] ELSE 0

\* C15: in production, a feedback whose consumer_id is the caller_id of the
\* agent it rates logs one SELF_RATING / HIGH row and is applied to the
\* stats with the weight 0.1 x decreasing weight; every other feedback logs
\* no SELF_RATING row and is applied with 1.0 x decreasing weight.
C15_SelfRatingDampened ==
  production =>
    \A c \in {P1, C1}, rating \in GivenRatings :
      LET req == [agent_id |-> "a1", consumer_id |-> c, success |-> TRUE,
                  latency_ms |-> 100, rating |-> rating]
          out == submitFeedback(production, agents, stats, feedbacks, fraudLog,
                                req, now)
          self == c = agents["a1"].caller_id
          prior == countByConsumerAndAgent(feedbacks, c, "a1")
          decreasing == IF prior = 0 THEN FullWeight
                        ELSE Max(MinWeight, WeightTable(prior))
          weight == (IF self THEN SelfWeight ELSE NoSelfWeight) * decreasing
      IN out.result \in {"ok", "BLOCKED_SPAM"} =>
           /\ \A r \in DOMAIN out.fraudLog :
                r.fraud_type = "SELF_RATING" =>
                  RowCount(out.fraudLog, r) - RowCount(fraudLog, r)
                    = IF self /\ r = FraudRow("a1", c, "SELF_RATING", "HIGH")
                      THEN 1 ELSE 0
           /\ self => FraudRow("a1", c, "SELF_RATING", "HIGH") \in DOMAIN out.fraudLog
           /\ out.result = "ok" =>
                /\ out.weight = weight
                /\ out.stats["a1"] = updatedStats(stats["a1"], TRUE, 100, rating, weight)

\* the owner of a1 rated it 1.0 twice in production: two SELF_RATING rows,
\* the second rating applied at 0.1 x 0.5906, and a mean of 0.08
C15_Witness ==
  /\ production
  /\ RowCount(fraudLog, FraudRow("a1", P1, "SELF_RATING", "HIGH")) = 2
  /\ handlers["h1"].result = "ok"
  /\ handlers["h1"].weight = SelfWeight * WeightTable(1)
  /\ stats["a1"].calls_total = 2
  /\ stats["a1"].avg_rating = 8

(* ------------------------------------------------------------------ *)
(* Ranking                                                              *)
(* ------------------------------------------------------------------ *)
\* the location search filters on: none when the request has none or a
\* placeholder
normalizedLocationOf(request) ==
  IF toLowerCase(request.location) \in PlaceholderLocations THEN <<>>
  ELSE request.location

\* the score search computes for agent `id` and `request` in this state
scoreNow(id, request) ==
  calculateScore(production, agents, stats, feedbacks, fraudLog, id, request)

\* C16: every item search returns has a computed score of at least 0.4
\* (so a returned score of at least 0.40), and when the request asked for a
\* location the item's geo score is at least 0.3 or its location_scope is
\* Global.
C16_MinScoreAndGeo ==
  \A request \in RankRequests, rowOrder \in RowOrders :
    LET items == searchNow(request, rowOrder).items
        place == normalizedLocationOf(request)
    IN \A k \in DOMAIN items :
         /\ scoreNow(items[k].id, request) >= 400000
         /\ items[k].score >= 40
         /\ place # <<>> =>
              \/ agents[items[k].id].location_scope = TGlobal
              \/ calculateGeoScore(agents[items[k].id].location_scope, place) >= 300000

\* a search for agents in Brazil returned the agent of Sao Paulo, whose geo
\* score is 0.3; a search for Lisbon leaves it out though its score is
\* above 0.4 and returns the Global agent
C16_Witness ==
  /\ searchResult # NoRow
  /\ searchResult.items = searchNow(Located(ReqFiltered, TBrazil), <<"a1", "a2">>).items
  /\ \E k \in DOMAIN searchResult.items : searchResult.items[k].id = "a2"
  /\ calculateGeoScore(agents["a2"].location_scope, TBrazil) = 300000
  /\ LET r == searchNow(Located(ReqFiltered, TLisbon), <<"a1", "a2">>)
     IN /\ scoreNow("a2", Located(ReqFiltered, TLisbon)) >= 400000
        /\ \A k \in DOMAIN r.items : r.items[k].id # "a2"
        /\ \E k \in DOMAIN r.items : r.items[k].id = "a1"


\* the score of agent `id` for `request` before the penalty of quarantine
rawScoreNow(id, request) ==
  calculateScore(production, [agents EXCEPT ![id].status = "active"], stats,
                 feedbacks, fraudLog, id, request)

\* the items of a response that are agent `id`
ItemsOf(r, id) == {k \in DOMAIN r.items : r.items[k].id = id}

\* C17: a quarantined agent stays searchable with its score reduced by 0.3:
\* when a quarantined agent whose raw score for the request is 0.5 is among
\* the candidates, it is in the results with score 0.20.
C17_QuarantinedStaysSearchable ==
  \A request \in RankRequests, rowOrder \in RowOrders :
    LET r == searchNow(request, rowOrder)
    IN \A id \in Range(r.candidates) :
         (agents[id].status = "quarantine" /\ rawScoreNow(id, request) = 500000)
           => \E k \in ItemsOf(r, id) : r.items[k].score = 20

\* C17, as the code has it: the score of a quarantined agent is its raw
\* score less 0.3, not below 0, and the agent is returned only when that
\* reduced score is still at least 0.4.
C17_PenaltyBeforeThreshold ==
  \A request \in RankRequests, rowOrder \in RowOrders :
    LET r == searchNow(request, rowOrder)
    IN \A id \in Range(r.candidates) :
         agents[id].status = "quarantine" =>
           /\ scoreNow(id, request) = Max(0, rawScoreNow(id, request) - 300000)
           /\ ItemsOf(r, id) # {} => rawScoreNow(id, request) >= 700000

\* a1 is in quarantine, its raw score for the request is 0.5, and the last
\* search, for that request, returned nothing
C17_Reached ==
  /\ agents["a1"].status = "quarantine"
  /\ rawScoreNow("a1", ReqIntent) = 500000
  /\ "a1" \in Range(searchNow(ReqIntent, <<"a1", "a2">>).candidates)
  /\ searchResult # NoRow
  /\ searchResult.items = searchNow(ReqIntent, <<"a1", "a2">>).items
  /\ ItemsOf(searchResult, "a1") = {}


\* the agents that pass the thresholds on score and location for `request`
Passing(request, r) ==
  {id \in Range(r.candidates) :
     /\ agents[id].status # "banned"
     /\ scoreNow(id, request) >= 400000
     /\ \/ normalizedLocationOf(request) = <<>>
        \/ agents[id].location_scope = TGlobal
        \/ calculateGeoScore(agents[id].location_scope,
                             normalizedLocationOf(request)) >= 300000}

\* the items are in non-increasing order of score, and no agent that passes
\* the thresholds and is left out scores more than an item
BestFirst(request, r) ==
  /\ \A j, k \in DOMAIN r.items :
       j < k => /\ r.items[j].score >= r.items[k].score
                /\ scoreNow(r.items[j].id, request) >= scoreNow(r.items[k].id, request)
  /\ \A k \in DOMAIN r.items : r.items[k].id \in Passing(request, r)
  /\ \A k \in DOMAIN r.items :
       \A id \in Passing(request, r) \ {r.items[j].id : j \in DOMAIN r.items} :
         scoreNow(id, request) <= scoreNow(r.items[k].id, request)

\* C18: search returns at most min(limit, 10) items, never more than 10
\* whatever the limit (absent, 0, negative), in non-increasing order of
\* score, and they are the highest-scoring agents that pass the thresholds.
C18_AtMostTenBestFirst ==
  \A request \in LimitRequests, rowOrder \in CrowdOrders :
    LET r == searchNow(request, rowOrder)
    IN /\ Len(r.items) <= 10
       /\ request.limit > 0 => Len(r.items) <= Min(request.limit, 10)
       /\ BestFirst(request, r)

\* C18 for the requests whose limit is absent, 0 or positive
C18_PositiveLimits ==
  \A request \in {q \in LimitRequests : q.limit >= 0}, rowOrder \in CrowdOrders :
    LET r == searchNow(request, rowOrder)
    IN /\ Len(r.items) <= Min(IF request.limit = 0 THEN 10 ELSE request.limit, 10)
       /\ BestFirst(request, r)

\* a search with limit -1 over twelve agents that pass the thresholds
\* returned eleven of them
C18_Reached ==
  /\ searchResult # NoRow
  /\ Len(searchResult.items) = 11
  /\ Cardinality(Passing(Limited(ReqFiltered, 0 - 1),
                          searchNow(Limited(ReqFiltered, 0 - 1), CrowdIds))) = 12
  /\ searchResult.items = searchNow(Limited(ReqFiltered, 0 - 1), CrowdIds).items


\* the agents of scenario 1: intents [weather.forecast], categories
\* [weather], location_scope Global, active, no feedback
ScenarioAgents ==
  {id \in DOMAIN agents :
     /\ agents[id].intents = <<TWeatherForecast>>
     /\ agents[id].categories = <<TWeather>>
     /\ agents[id].location_scope = TGlobal
     /\ agents[id].status = "active"
     /\ FeedbackCount(id) = 0
     /\ findStatsByAgentId(stats, id) # NoRow
     /\ findStatsByAgentId(stats, id).calls_total = 0}

\* the request of scenario 1 gives agent `id` the geo factor `geo` and
\* returns it with the score `score` (in hundredths)
ScenarioGives(id, geo, score) ==
  /\ calculateGeoScore(agents[id].location_scope, ReqFiltered.location) = geo
  /\ \A rowOrder \in RowOrders :
       \E k \in ItemsOf(searchNow(ReqFiltered, rowOrder), id) :
         searchNow(ReqFiltered, rowOrder).items[k].score = score

\* C19: in scenario 1 the request {intent: weather.forecast, categories:
\* [weather]} without location, description or tags gives the agent the geo
\* factor 0.5 and returns it with score 0.61.
C19_ScenarioScore ==
  \A id \in ScenarioAgents : ScenarioGives(id, 500000, 61)

\* C19, amended: in scenario 1 the request gives the agent the geo factor
\* 0.3, the value of a Global agent with or without a requested location,
\* and returns it with score 0.57
\* (0.25 + 0.06 + 0 + 0.05 + 0.10 + 0 + 0.07 + 0 + 0.04).
C19_ScenarioScoreGlobal ==
  \A id \in ScenarioAgents : ScenarioGives(id, 300000, 57)

\* the agent of scenario 1 is registered without feedback and the last
\* search, the scenario's, returned it
C19_Witness ==
  /\ "a1" \in ScenarioAgents
  /\ ReqFiltered.location = <<>>
  /\ ReqFiltered.description = <<>>
  /\ ReqFiltered.tags = <<>>
  /\ searchResult # NoRow
  /\ searchResult.items = searchNow(ReqFiltered, <<"a1", "a2">>).items
  /\ ItemsOf(searchResult, "a1") # {}


(* ------------------------------------------------------------------ *)
(* Execution keys                                                       *)
(* ------------------------------------------------------------------ *)
\* the body POST /search sends consumer `c` in this state
replyNow(c) ==
  searchReply(callers, c, searchNow(ReqFiltered, <<"a1", "a2">>), now)

\* the secrets a provider may hold, the registry's among them
Secrets == {"s0", "s1", "s2", "s3", JWT_SECRET}

\* the key of item `k` of `body`, sent to consumer `c` at time t, names the
\* consumer and the agent, expires 5 minutes after t, and verifies under the
\* decryptable secret of the agent's owner and under no other secret; it is
\* signed with the master secret only when the owner has no such secret
KeyIsSound(body, k, c, t) ==
  LET item == body.agentsWithKeys[k]
      key == item.execution_key
      supplied == getProviderSecret(callers, agents[item.id].caller_id)
  IN /\ item.id = body.items[k].id
     /\ key.consumer_caller_id = c
     /\ key.agent_id = item.id
     /\ key.exp = t + 5
     /\ item.key_expires_at = t + 5
     /\ supplied # NoText =>
          \A secret \in Secrets :
            verifyExecutionKey(key, item.id, secret, t) <=> secret = supplied
     /\ \A secret \in Secrets : ~verifyExecutionKey(key, item.id, secret, t + 5)
     /\ key.secret = JWT_SECRET => supplied = NoText

\* every result of a search has a key, and the key is sound
KeysAreSound ==
  \A c \in ConsumerIds :
    hasValidToken(callers, c, "consumer", now) =>
      /\ DOMAIN replyNow(c).agentsWithKeys = DOMAIN replyNow(c).items
      /\ \A k \in DOMAIN replyNow(c).items : KeyIsSound(replyNow(c), k, c, now)

\* the decryptable secret of a provider is the one it supplied with its
\* last token request: a token request sets it, and nothing else changes it
SecretFollowsToken ==
  /\ \A r \in KeyTokenRequests :
       Token(r[1], r[2], r[3]) =>
         getProviderSecret(callers', generateCallerId(r[1], r[2])) = r[3]
  /\ \A p \in ProviderIds :
       getProviderSecret(callers', p) # getProviderSecret(callers, p) =>
         \E r \in KeyTokenRequests :
           /\ generateCallerId(r[1], r[2]) = p
           /\ Token(r[1], r[2], r[3])

\* C20: every search result carries an execution key that names the
\* consumer's caller_id and the agent's id, expires 5 minutes after it was
\* minted, and is signed with the secret most recently supplied by the
\* provider that owns the agent now (after a rotation the new keys verify
\* only under the new secret); the master secret signs only when the owner
\* has no decryptable secret.
C20_ExecutionKeys == []KeysAreSound /\ [][SecretFollowsToken]_vars

\* the owner of a1 has rotated its secret from s1 to s3 and a2 belongs to
\* the provider whose stored secret does not decrypt; the last search
\* returned both: the key for a1 verifies under s3 and not under s1, the
\* key for a2 is signed with the master secret
C20_Witness ==
  /\ searchResult # NoRow
  /\ searchResult.consumer_id = C1
  /\ searchResult = replyNow(C1)
  /\ agents["a1"].caller_id = P1
  /\ agents["a2"].caller_id = P2
  /\ getProviderSecret(callers, P1) = "s3"
  /\ getProviderSecret(callers, P2) = NoText
  /\ \E k \in DOMAIN searchResult.agentsWithKeys :
       LET item == searchResult.agentsWithKeys[k]
       IN /\ item.id = "a1"
          /\ verifyExecutionKey(item.execution_key, "a1", "s3", now)
          /\ ~verifyExecutionKey(item.execution_key, "a1", "s1", now)
          /\ item.key_expires_at = now + 5
  /\ \E k \in DOMAIN searchResult.agentsWithKeys :
       /\ searchResult.agentsWithKeys[k].id = "a2"
       /\ searchResult.agentsWithKeys[k].execution_key.secret = JWT_SECRET


RouteTaken(route, token) ==
  CASE route = "/register" ->
         \E id \in AgentIds : RegisterRoute(token, id, PayloadOf(id))
    [] route = "/search" -> SearchRoute(token, ReqFiltered, <<"a1", "a2">>)
    [] route = "/feedback" ->
         \E ok \in BOOLEAN : FeedbackRoute(token, "a1", ok, 100, IF ok THEN 100 ELSE 0)

\* `token` is a session token signed by the registry, not expired, of the
\* type `route` serves
Authorized(route, token) ==
  /\ token # NoRow
  /\ token.secret = JWT_SECRET
  /\ now < token.exp
  /\ token.type = (IF route = "/register" THEN "provider" ELSE "consumer")

\* a request that is not authorized is refused with 401 when it has no
\* token and with 403 otherwise, and nothing the registry keeps or last
\* returned changes; one that is authorized is not refused
RouteGuarded(route, token) ==
  IF Authorized(route, token) THEN refusal' = refusal
  ELSE /\ refusal' = [route |-> route, token |-> token,
                      status |-> IF token = NoRow THEN 401 ELSE 403]
       /\ UNCHANGED <<agents, stats, feedbacks, fraudLog, callers, handlers,
                      submits, searchResult>>

C23_OneCallerPerIdentifier ==
  /\ \A j, k \in DOMAIN callers :
       (callers[j].type = callers[k].type
        /\ callers[j].identifier = callers[k].identifier) => j = k
  /\ \A x, y \in issuedTokens :
       (x.type = y.type /\ x.identifier = y.identifier) => x.caller_id = y.caller_id

\* two first-sight requests for one identifier were interleaved: one was
\* issued its token and the other failed on the constraint
C23_Witness ==
  /\ \E h \in TokenHandlers :
       /\ tokenHandlers[h].status = 500
       /\ tokenHandlers[h].error = "duplicate key value violates unique constraint"
  /\ \E x \in issuedTokens : x.identifier = "acme|10.0.0.1"
  /\ \E k \in DOMAIN callers : callers[k].identifier = "acme|10.0.0.1"


\* the request comes with a client id that a caller of its type already
\* holds under another identifier
Spoofed(type, identifier) ==
  /\ hasClientId(identifier)
  /\ \E k \in DOMAIN callers :
       /\ callers[k].type = type
       /\ callers[k].identifier # identifier
       /\ hasClientId(callers[k].identifier)
       /\ clientIdPart(chars(callers[k].identifier)) = clientIdPart(chars(identifier))

\* C24: a token request `clientId|ip` fails with the identity mismatch
\* whenever a caller of its type exists with the same client id and another
\* identifier, so that each type holds at most one caller per client id.
C24_SpoofRejected ==
  /\ \A r \in SpoofRequests :
       Spoofed(r[1], r[2]) => identityMismatch(callers, r[1], r[2])
  /\ \A j, k \in DOMAIN callers :
       (/\ callers[j].type = callers[k].type
        /\ hasClientId(callers[j].identifier)
        /\ hasClientId(callers[k].identifier)
        /\ clientIdPart(chars(callers[j].identifier))
             = clientIdPart(chars(callers[k].identifier))) => j = k


(* ------------------------------------------------------------------ *)
(* Registration                                                         *)
(* ------------------------------------------------------------------ *)
\* the agent row: what a registration of `payload` by `callerId` writes
Metadata(row) ==
  [caller_id |-> row.caller_id, name |-> row.name, endpoint |-> row.endpoint,
   description |-> row.description, intents |-> row.intents, tags |-> row.tags,
   categories |-> row.categories, location_scope |-> row.location_scope,
   languages |-> row.languages]

Standing(row) ==
  [status |-> row.status, quarantine_reason |-> row.quarantine_reason,
   quarantine_at |-> row.quarantine_at]

\* the agent `id` is registered again in this step
Reregistered(p, id, payload) ==
  /\ id \in DOMAIN agents
  /\ Register(p, id, payload)

\* C25: a provider that registers the payload its agent already has changes
\* nothing but updated_at; the agent keeps one stats row, and no second
\* registration resets the stats or changes status, quarantine_reason or
\* quarantine_at.
C25_ReregistrationIdempotent ==
  [][\A p \in ProviderIds, id \in AgentIds, payload \in Payloads :
       Reregistered(p, id, payload) =>
         /\ stats' = stats
         /\ id \in DOMAIN stats'
         /\ Standing(agents'[id]) = Standing(agents[id])
         /\ Metadata(agents[id]) = Metadata(AgentRow(payload, p, "", "", 0, 0))
              => agents' = [agents EXCEPT ![id].updated_at = now]]_vars

\* a1, in quarantine with twenty calls counted, was registered again by its
\* owner with the payload it had
C25_Witness ==
  /\ agents["a1"].updated_at > 0
  /\ Metadata(agents["a1"]) = Metadata(AgentRow(PWeather, P1, "", "", 0, 0))
  /\ agents["a1"].status = "quarantine"
  /\ stats["a1"].calls_total >= 20

\* C26: a provider that registers an agent id owned by another provider
\* succeeds: every metadata field is overwritten, caller_id included, and
\* status and stats stay as they were.
C26_OwnershipPasses ==
  [][\A p \in ProviderIds, id \in AgentIds, payload \in Payloads :
       (Reregistered(p, id, payload) /\ agents[id].caller_id # p) =>
         /\ Metadata(agents'[id]) = Metadata(AgentRow(payload, p, "", "", 0, 0))
         /\ agents'[id].caller_id = p
         /\ Standing(agents'[id]) = Standing(agents[id])
         /\ stats'[id] = stats[id]]_vars

\* a1 of P1 now belongs to P2 under another payload, still in quarantine
\* with its calls counted
C26_Witness ==
  /\ agents["a1"].caller_id = P2
  /\ agents["a1"].name = PStorm.name
  /\ agents["a1"].status = "quarantine"
  /\ agents["a1"].quarantine_reason = "Fraud > 50%"
  /\ stats["a1"].calls_total >= 20


\* the endpoints tried that are URLs: all but the one without a scheme, the
\* ones without a host or with a space in it, and the ones whose port is
\* not a number up to 65535
Urls ==
  Endpoints \ {WxHost, Https, Https \o <<"w", "x", " ", "e", "x", "a", "m", "p", "l", "e", ".", "c", "o", "m">>,
               Http \o Localhost \o <<":", "a", "b", "c">>, Http \o Localhost \o <<":", "7", "0", "0", "0", "0">>}

\* the first n characters of `text` are those of `prefix`
BeginsWith(text, prefix) ==
  /\ Len(prefix) <= Len(text)
  /\ \A k \in DOMAIN prefix : text[k] = prefix[k]

\* the endpoints register is to accept
Acceptable(prod, endpoint) ==
  /\ endpoint \in Urls
  /\ \/ BeginsWith(endpoint, <<"h", "t", "t", "p", "s", ":", "/", "/">>)
     \/ ~prod /\ BeginsWith(endpoint, <<"h", "t", "t", "p", ":", "/", "/", "l", "o", "c", "a", "l", "h", "o", "s", "t", ":">>)
     \/ ~prod /\ BeginsWith(endpoint, <<"h", "t", "t", "p", ":", "/", "/", "1", "2", "7", ".", "0", ".", "0", ".", "1", ":">>)

outcomeNow(req) ==
  submitFeedback(production, agents, stats, feedbacks, fraudLog, req, now).result

\* the status the taxonomy gives an outcome of submitFeedback
TaxonomyStatus(result) ==
  CASE result = "NOT_FOUND" -> 404
    [] result = "RATE_LIMITED" -> 429
    [] result = "BLOCKED_SPAM" -> 400
    [] result = "VALIDATION_ERROR" -> 400
    [] OTHER -> 200

\* a provider's client id comes from an address that is not the caller's
SpoofingRequests ==
  {<<"provider", "acme|10.0.0.3", "s1">>, <<"provider", "acme|10.0.0.1", "s1">>}

\* C28: a feedback for an unknown agent is answered 404, a feedback over
\* the rate limit 429, a feedback blocked as spam 400, and a token request
\* that fails the identity check 403.
C28_TaxonomyStatuses ==
  /\ \A req \in FeedbackRequests({"a1", "a2", MissingId}) :
       feedbackNow(req).status = TaxonomyStatus(outcomeNow(req))
  /\ \A r \in SpoofingRequests :
       identityMismatch(callers, r[1], r[2]) =>
         tokenReply(callers, r[1], r[2], r[3]) = 403

\* the statuses of the routes as they are: 400 for the unknown agent and
\* 500 for the identity mismatch
C28_StatusesSent ==
  /\ \A req \in FeedbackRequests({"a1", "a2", MissingId}) :
       feedbackNow(req).status =
         (IF outcomeNow(req) = "NOT_FOUND" THEN 400
          ELSE TaxonomyStatus(outcomeNow(req)))
  /\ \A r \in SpoofingRequests :
       identityMismatch(callers, r[1], r[2]) =>
         tokenReply(callers, r[1], r[2], r[3]) = 500

\* a state in which each of the four errors is the answer to some request
C28_Reached ==
  /\ \E req \in FeedbackRequests({MissingId}) : outcomeNow(req) = "NOT_FOUND"
  /\ \E req \in FeedbackRequests({"a1"}) : outcomeNow(req) = "RATE_LIMITED"
  /\ identityMismatch(callers, "provider", "acme|10.0.0.3")


(* ------------------------------------------------------------------ *)
(* Fraud percentage                                                     *)
(* ------------------------------------------------------------------ *)
\* the health report of a1 in this state
healthNow == checkAgentHealth(production, agents, stats, feedbacks, fraudLog, "a1")

\* C29: in production an agent whose feedbacks are all successes within
\* 500 ms rated 1.0, one from each of so many consumers that are not its
\* owner, keeps fraud_percentage 0 and stays active under auto-review.
C29_PraisedStaysActive ==
  /\ healthNow.fraud_percentage = 0
  /\ agents["a1"].status = "active"

\* up to the number of feedbacks the rating-pattern check asks for, and one
\* more, nothing is logged
C29_FirstFeedbacks ==
  countFeedbacksOfAgent(feedbacks, "a1") <= PatternMinTotal =>
    /\ healthNow.fraud_percentage = 0
    /\ agents["a1"].status = "active"

\* every feedback after those adds a RATING_PATTERN row to the log
C29_PatternRows ==
  countFeedbacksOfAgent(feedbacks, "a1") >= PatternMinTotal =>
    getTotalFraudCount(fraudLog, "a1")
      = countFeedbacksOfAgent(feedbacks, "a1") - PatternMinTotal

\* a1 in quarantine for fraud, every feedback it has being a 1.0 of a
\* different consumer
C29_Reached ==
  /\ agents["a1"].status = "quarantine"
  /\ agents["a1"].quarantine_reason = "Fraud > 50%"
  /\ \A r \in DOMAIN feedbacks :
       r.rating = 100 /\ r.success /\ feedbacks[r] = 1 /\ r.consumer_id # P1


\* C30: in production one consumer that does not own a1 cannot, with the
\* feedback it submits for a1, accepted or rejected, raise the fraud
\* percentage of a1 above the quarantine threshold of 50 %.
C30_OneConsumerBelowThreshold ==
  ~PctGt(calculateFraudPercentage(production, feedbacks, fraudLog, "a1"), T1FraudPct)

\* the requests that are blocked as spam add no feedback row, so the rate
\* limit does not count them, and each adds a row to the fraud log
C30_BlockedNotCounted ==
  [][\A ok \in BOOLEAN, rating \in {0, 50} :
       (SubmitWithin(MaxSpam, "h1", C1, "a1", ok, 100, rating)
        /\ handlers'["h1"].result = "BLOCKED_SPAM") =>
         /\ feedbacks' = feedbacks
         /\ getTotalFraudCount(fraudLog', "a1") = getTotalFraudCount(fraudLog, "a1") + 1]_vars

\* a1 in quarantine for fraud with no feedback but C1's, the spam rows of
\* C1's blocked requests alone being more than half the feedbacks
C30_Reached ==
  /\ agents["a1"].status = "quarantine"
  /\ agents["a1"].quarantine_reason = "Fraud > 50%"
  /\ agents["a1"].caller_id # C1
  /\ \A r \in DOMAIN feedbacks : r.consumer_id = C1
  /\ \E r \in DOMAIN fraudLog :
       r.consumer_id = C1 /\ r.fraud_type = "SPAM" /\ 2 * fraudLog[r] > 10


\* ---------------------------------------------------------------------
\* C31: auto-review converges when stats and fraud counts are held fixed:
\* an agent that a production run returns from quarantine to active
\* satisfies no Threshold 1 condition at that moment, so the next run
\* cannot quarantine it again and no agent alternates between active and
\* quarantine.
C31_ReactivatedBelowThreshold1 ==
  \A a \in DOMAIN agents :
    agents[a].status = "quarantine" /\ RunResult.agents[a].status = "active" =>
      ~Threshold1(a)

\* the alternation: a quarantined agent that the next run reactivates and
\* the run after that, on the same stats and fraud rows, quarantines again
C31_Alternates ==
  /\ production
  /\ agents["a1"].status = "quarantine"
  /\ agents["a1"].quarantine_reason = "Latency > 30s"
  /\ RunResult.agents["a1"].status = "active"
  /\ SecondRunResult.agents["a1"].status = "quarantine"


\* ---------------------------------------------------------------------
\* the type of the Caller row that owns `callerId`
callerType(callerId) ==
  IF callerById(callers, callerId) = NoRow THEN NoText
  ELSE callerById(callers, callerId).type

RegUpsert(callerId, id, payload) ==
  /\ registering = NoText
  /\ hasValidToken(callers, callerId, "provider", now)
  /\ validateRegister(payload)
  /\ validateEndpoint(production, payload.endpoint)
  /\ agents' = upsert(agents, id, payload, callerId, now)
  /\ registering' = id
  /\ UNCHANGED <<production, now, ticks, stats, feedbacks, fraudLog, callers,
                 handlers, submits, reviewResult, searchResult, ipRateLimits,
                 executeReply, refusal, tokenHandlers, issuedTokens,
                 registerReply>>

\* statsRepo.findByAgentId and, when it finds no row, statsRepo.create
RegStats ==
  /\ registering # NoText
  /\ stats' = ensureStats(stats, registering)
  /\ registering' = NoText
  /\ UNCHANGED <<production, now, ticks, agents, feedbacks, fraudLog, callers,
                 handlers, submits, reviewResult, searchResult, ipRateLimits,
                 executeReply, refusal, tokenHandlers, issuedTokens,
                 registerReply>>

RegUpsertStep == \E id \in AgentIds : RegUpsert(P1, id, PayloadOf(id))

\* feedbacks of one consumer, a rating of 1.5 among them, served one at a time
SingleRatings == {50, 150}

SingleSubmitStep ==
  \E a \in AgentIds, ok \in BOOLEAN, r \in SingleRatings :
    FbSubmit("h1", C1, a, ok, 100, r)

SinglePipelineStep ==
  FbLookup("h1") \/ FbFraud("h1") \/ FbInsert("h1") \/ FbRead("h1") \/ FbWrite("h1")

\* one feedback handler, and a provider registering agents meanwhile
NextAtomic ==
  \/ RegUpsertStep
  \/ RegStats
  \/ SingleSubmitStep
  \/ SinglePipelineStep

SpecAtomic == InitFeedback /\ [][NextAtomic]_vars

\* C33: feedback recording is atomic: a request that completed with an
\* error left no Feedback row and no change in agent_stats, and one that
\* completed with success added exactly one Feedback row and one to
\* calls_total; so whenever no request is in flight each agent has as many
\* Feedback rows as its calls_total counts, and none without a stats row.
C33_FeedbackAtomic ==
  (\A h \in Handlers : handlers[h].pc = "idle") =>
    \A a \in AgentIds :
      countFeedbacksOfAgent(feedbacks, a) =
        (IF a \in DOMAIN stats THEN stats[a].calls_total ELSE 0)

\* the request failed in the stats update and its Feedback row is stored
C33_RowWithoutCount ==
  /\ handlers["h1"].pc = "idle"
  /\ handlers["h1"].result = "INTERNAL"
  /\ countFeedbacksOfAgent(feedbacks, "a2") = 1
  /\ "a2" \in DOMAIN stats
  /\ stats["a2"].calls_total = 0

\* requests that ended with success and with each early error keep the count
C33_CompletedInStep ==
  /\ handlers["h1"].pc = "idle"
  /\ handlers["h1"].result \in {"ok", "VALIDATION_ERROR", "NOT_FOUND"}
  /\ C33_FeedbackAtomic


\* ---------------------------------------------------------------------
\* one consumer's feedbacks for an agent it rated ten times within the
\* hour and for one it never rated, served one at a time
OrderSubmitStep ==
  \E a \in AgentIds, ok \in BOOLEAN : FbSubmit("h1", C1, a, ok, 100, 50)

NextOrder ==
  \/ OrderSubmitStep
  \/ SinglePipelineStep
  \/ TickStep

SpecOrder == InitRows(TRUE, Recent(10), Fresh) /\ [][NextOrder]_vars

\* the total weight of a feedback of a consumer that is not the owner and
\* has n earlier feedbacks for the agent
weightAfter(n) ==
  NoSelfWeight * (IF n = 0 THEN FullWeight ELSE Max(MinWeight, WeightTable(n)))

\* the rows of the request's consumer and agent, all and of the last hour
rowsOfRequest(req) == countByConsumerAndAgent(feedbacks, req.consumer_id, req.agent_id)
recentOfRequest(req) ==
  countRecentByConsumerAndAgent(feedbacks, req.consumer_id, req.agent_id, now)

\* the steps of a request follow each other in the order of submitFeedback
InOrder(h) ==
  /\ handlers'[h].pc # handlers[h].pc =>
       \/ handlers'[h].pc = "idle"
       \/ <<handlers[h].pc, handlers'[h].pc>> \in
            {<<"idle", "lookup">>, <<"lookup", "fraud">>, <<"fraud", "insert">>,
             <<"insert", "read">>, <<"read", "write">>}
  /\ handlers'[h].pc = handlers[h].pc => handlers'[h] = handlers[h]

\* what the fraud analysis of the request in flight saw excludes its row
ExcludesOwnRow(h) ==
  LET hd == handlers[h]
      own == IF hd.pc \in {"read", "write"} THEN 1 ELSE 0
  IN hd.pc \in {"insert", "read", "write"} =>
       /\ hd.weight = weightAfter(rowsOfRequest(hd.req) - own)
       /\ ticks = 0 => recentOfRequest(hd.req) - own <= SpamPerHour
       /\ hd.pc \in {"read", "write"} =>
            \E r \in DOMAIN feedbacks : r = FeedbackRow(hd.req, r.created_at)

\* C34: within one feedback request the steps run in the order rate-limit
\* check, agent lookup, fraud analysis, Feedback insert, stats update; the
\* spam count and the decreasing-weight count n of the analysis exclude
\* the feedback being submitted, and the stats update runs only after the
\* request's Feedback row exists.
C34_OrderedSteps ==
  /\ [](ExcludesOwnRow("h1"))
  /\ [][/\ InOrder("h1")
        /\ feedbacks' # feedbacks => handlers["h1"].pc = "insert"
        /\ stats' # stats => handlers["h1"].pc = "write"
                             /\ rowsOfRequest(handlers["h1"].req) >= 1]_vars

\* the eleventh feedback of the hour passed the spam check, was inserted
\* and is weighted as the one after ten
C34_Witness ==
  /\ handlers["h1"].pc = "write"
  /\ handlers["h1"].req.agent_id = "a1"
  /\ rowsOfRequest(handlers["h1"].req) = 11
  /\ handlers["h1"].weight = weightAfter(10)
  /\ stats["a1"].calls_total = 10


\* ---------------------------------------------------------------------
\* feedbacks of a consumer close to a limit, for its agents and for an
\* unknown one, a rating of 1.5 among them
RejectStep ==
  \E a \in {"a1", "a2", UnknownId}, r \in {0, 150} :
    FeedbackWithin(MaxRatings, "h1", C1, a, TRUE, 100, r)

NextReject ==
  \/ RejectStep
  \/ TickStep

SpecReject == InitLimit /\ [][NextReject]_vars

Rejections == {"VALIDATION_ERROR", "RATE_LIMITED", "NOT_FOUND", "BLOCKED_SPAM"}

\* C35: a feedback submission rejected by validation, by the rate limit,
\* because the agent does not exist, or by the spam block inserts no
\* Feedback row and leaves every AgentStats row and every agent's status
\* unchanged.
C35_RejectionFrame ==
  [][(submits' = submits + 1 /\ handlers'["h1"].result \in Rejections) =>
       /\ feedbacks' = feedbacks
       /\ stats' = stats
       /\ DOMAIN agents' = DOMAIN agents
       /\ \A a \in DOMAIN agents : agents'[a].status = agents[a].status]_vars

\* the twelfth feedback of the hour was blocked as spam: a1 has the eleven
\* rows and the eleven calls it had, and the SPAM row is logged
C35_Witness ==
  /\ handlers["h1"].result = "BLOCKED_SPAM"
  /\ countFeedbacksOfAgent(feedbacks, "a1") = 11
  /\ stats["a1"].calls_total = 11
  /\ \E r \in DOMAIN fraudLog : r.fraud_type = "SPAM"

\* each of the other rejections has been the answer to a request
C35_Validation == handlers["h1"].result = "VALIDATION_ERROR"
C35_RateLimited == handlers["h1"].result = "RATE_LIMITED"
C35_NotFound == handlers["h1"].result = "NOT_FOUND"


\* ---------------------------------------------------------------------
\* a consumer with 59 feedbacks in the last minute sends more of them,
\* served by two handlers concurrently
BurstSubmitStep ==
  \E h \in Handlers, a \in AgentIds : FbSubmit(h, C1, a, TRUE, 100, 0)

NextBurst ==
  \/ BurstSubmitStep
  \/ PipelineStep

SpecBurst == InitRows(FALSE, Recent(30), Recent(29)) /\ [][NextBurst]_vars

\* the times at which some Feedback row was created
creationTimes == {r.created_at : r \in DOMAIN feedbacks}

\* the consumer's Feedback rows created in the minute that ends at t
createdWithin(c, t) ==
  LET P(r) == r.consumer_id = c /\ r.created_at > t - 1 /\ r.created_at <= t
  IN CountRows(feedbacks, P)

\* C36: the rate limit holds across parallel handlers: in every
\* interleaving of concurrent submissions by one consumer the number of
\* that consumer's Feedback rows created within any 60-second window never
\* exceeds 60.
C36_WindowWithinLimit ==
  \A c \in ConsumerIds, t \in creationTimes \cup {now} :
    createdWithin(c, t) <= RateLimitPerMinute

\* both handlers counted 59 rows before either inserted: 61 rows of the
\* consumer were created within the same minute
C36_SixtyOneRows ==
  /\ \A h \in Handlers : handlers[h].pc = "idle" /\ handlers[h].result = "ok"
  /\ countRecentByConsumer(feedbacks, C1, now) = RateLimitPerMinute + 1


\* ---------------------------------------------------------------------
\* the placeholder strings in the letter cases clients send
TNone == <<"N", "o", "n", "e">>
TNotApplicable == <<"N", "/", "A">>
Placeholders == {TNull, TNone, TNotApplicable}

\* C37: a search whose location is one of the placeholder strings null,
\* undefined, none or n/a (any letter case) returns exactly the same
\* agents, in the same order, with the same scores as the same request
\* with the location omitted.
C37_PlaceholderIsNoLocation ==
  \A l \in Placeholders, o \in RowOrders :
    searchNow(Located(ReqFiltered, l), o) = searchNow(Located(ReqFiltered, <<>>), o)

\* the same agents are returned: it is the score of the agent in Sao Paulo
\* that differs, 0.2 for the location `null` and 0.5 for none
C37_SameAgentsOtherScores ==
  /\ "a2" \in DOMAIN agents
  /\ agents["a2"].status = "active"
  /\ \A o \in RowOrders :
       LET given == searchNow(Located(ReqFiltered, TNull), o).items
           omitted == searchNow(Located(ReqFiltered, <<>>), o).items
       IN /\ Len(given) = Len(omitted)
          /\ \E k \in DOMAIN given : given[k].id = "a2"
          /\ \E k \in DOMAIN given, j \in DOMAIN omitted :
               /\ given[k].id = "a2" /\ omitted[j].id = "a2"
               /\ given[k].score < omitted[j].score
  /\ calculateGeoScore(TSaoPauloBrazil, TNull) = 200000
  /\ calculateGeoScore(TSaoPauloBrazil, <<>>) = 500000
  /\ searchResult # NoRow


\* ---------------------------------------------------------------------
\* POST /execute of a provider process whose JWT_SECRET is `jwtSecret`
ExecuteAt(jwtSecret, configId, token) ==
  /\ ipRateLimits' = [ipRateLimits EXCEPT ![configId] = now]
  /\ executeReply' =
       [agent_id |-> configId, token |-> token, at |-> now,
        jwt_secret |-> jwtSecret,
        status |-> executeWith(jwtSecret, configId, token, FALSE, FALSE, now).status,
        handled |-> executeWith(jwtSecret, configId, token, FALSE, FALSE, now).handled]
  /\ UNCHANGED <<production, now, ticks, agents, stats, feedbacks, fraudLog,
                 callers, handlers, submits, reviewResult, searchResult,
                 refusal, tokenHandlers, issuedTokens, registerReply,
                 registering>>

\* the execution keys of the last search
mintedKeys ==
  IF searchResult = NoRow THEN {}
  ELSE {searchResult.agentsWithKeys[k].execution_key :
          k \in DOMAIN searchResult.agentsWithKeys}

\* the session tokens of the callers
sessionTokens == {issuedToken(callers, c) : c \in callerIds(callers)}

\* the secrets a provider process may run with: its own, and the registry's
ProviderSecrets == {"s1", JWT_SECRET}

Routes == {"/register", "/search", "/feedback"}

SwapRegisterStep ==
  \E token \in mintedKeys : RegisterRoute(token, "a2", PayloadOf("a2"))

SwapSearchStep ==
  \E token \in mintedKeys \cup sessionTokens :
    SearchRoute(token, ReqFiltered, <<"a1", "a2">>)

SwapFeedbackStep ==
  \E token \in mintedKeys : FeedbackRoute(token, "a1", TRUE, 100, 100)

SwapExecuteStep ==
  \E secret \in ProviderSecrets, a \in AgentIds,
     token \in mintedKeys \cup sessionTokens :
    ExecuteAt(secret, a, token)

\* clients send execution keys to the registry's routes and session tokens
\* to the providers, whose secret may be the registry's
NextSwap ==
  \/ SwapRegisterStep
  \/ SwapSearchStep
  \/ SwapFeedbackStep
  \/ SwapExecuteStep
  \/ TickStep

SpecSwap == InitKeys /\ [][NextSwap]_vars

\* C38: session tokens and execution keys are never interchangeable: no
\* execution key, not even one signed with the registry master secret by
\* the fallback, is accepted by the register, search or feedback routes,
\* and no session token is accepted by a provider's /execute, even when
\* the provider's secret equals the registry master secret.
C38_NotInterchangeable ==
  /\ \A key \in mintedKeys, route \in Routes : preHandler(route, key, now) # 0
  /\ \A token \in sessionTokens, secret \in ProviderSecrets, a \in AgentIds :
       ~executeWith(secret, a, token, FALSE, FALSE, now).handled
  /\ executeReply # NoRow /\ executeReply.handled =>
       executeReply.token \in
         {generateExecutionKey(C1, executeReply.agent_id,
                               executeReply.jwt_secret, t).key : t \in 0..now}

\* a key that the fallback signed with the master secret was refused by
\* /search before it expired, and a consumer's valid session token was
\* refused by a provider that runs with the master secret
C38_Witness ==
  /\ refusal # NoRow
  /\ refusal.route = "/search"
  /\ refusal.token \in mintedKeys
  /\ verifyToken(refusal.token, now)
  /\ refusal.status = 403
  /\ executeReply # NoRow
  /\ executeReply.token = issuedToken(callers, C1)
  /\ executeReply.jwt_secret = JWT_SECRET
  /\ jwtVerify(executeReply.token, JWT_SECRET, executeReply.at)
  /\ executeReply.status = 403


\* ---------------------------------------------------------------------
\* agents that auto-review quarantines, bans and reactivates, registered
\* again and rated between the runs
InitStanding == InitWith({TRUE}, {Failing, Slow, Unreliable, Fresh})

NextStanding ==
  \/ AutoReview
  \/ RegisterStep
  \/ FeedbackStep
  \/ TickStep

SpecStanding == InitStanding /\ [][NextStanding]_vars

\* C39: in every reachable state an agent's quarantine_reason is non-null
\* if and only if its status is quarantine or banned; an active agent,
\* whether newly registered, re-registered or reactivated, has a null
\* quarantine_reason.
C39_ReasonIffRestricted ==
  \A a \in DOMAIN agents :
    /\ agents[a].status \in {"active", "quarantine", "banned"}
    /\ agents[a].quarantine_reason # NoText <=>
         agents[a].status \in {"quarantine", "banned"}

\* a1 was quarantined for its latency and reactivated by the next run, and
\* a2 was registered meanwhile: both are active without a reason
C39_Witness ==
  /\ reviewResult # NoRow
  /\ reviewResult.reactivated = 1
  /\ agents["a1"].status = "active"
  /\ agents["a1"].quarantine_at # NoTime
  /\ agents["a1"].quarantine_reason = NoText
  /\ "a2" \in DOMAIN agents
  /\ agents["a2"].quarantine_reason = NoText

\* an agent is banned, and one in quarantine was registered again
C39_Restricted ==
  \/ agents["a1"].status = "banned" /\ agents["a1"].quarantine_reason # NoText
  \/ /\ agents["a1"].status = "quarantine"
     /\ agents["a1"].updated_at > agents["a1"].quarantine_at
     /\ agents["a1"].quarantine_reason # NoText


\* ---------------------------------------------------------------------
\* C40: in development mode the health report's quarantine_risk is low for
\* every agent, whatever its stats; the high and critical risk levels are
\* assigned by the thresholds only in production.
C40_DevelopmentRiskLow ==
  ~production =>
    \A a \in DOMAIN agents :
      checkAgentHealth(production, agents, stats, feedbacks, fraudLog, a)
        .quarantine_risk = "low"

\* in development the report of an agent with 40 calls, 10 % of them
\* successful, says critical, with a fraud_percentage of 0
C40_DevelopmentCritical ==
  /\ ~production
  /\ stats["a1"].calls_total >= T2SuccessCalls
  /\ healthNow.quarantine_risk = "critical"
  /\ healthNow.fraud_percentage = 0
  /\ agents["a1"].status = "active"

====
